---- MODULE Spec2Model ----
(***************************************************************************)
(* A model of tile-analyzer: the rule classification engines               *)
(* (backend/main.py in-memory evaluation, lib/reporting.py compiled CASE   *)
(* statement), the filter/sort/page query compiler of search_tiles and the *)
(* dashboard caches.                                                       *)
(***************************************************************************)
EXTENDS Integers, Sequences, FiniteSets, TLC

VARIABLES
    db,             \* the SQLite store: SourceFiles, ImageTiles, Models, Predictions
    saved_rules,    \* SAVED_RULES_DIR: rule name -> stored HeatmapRulesConfig or NoFile
    response,       \* the response of the last handled request
    query,          \* the queries search_tiles built for the last request
    scan,           \* a client's concatenation of consecutive pages
    distribution_cache,           \* _distribution_cache: column -> result
    aggregate_rules_cache,        \* _aggregate_rules_cache: rule name -> result
    per_image_rule_report_cache,  \* _per_image_rule_report_cache: rule name -> result
    threads         \* the request each worker thread is running, and where it is

vars == <<db, saved_rules, response, query, scan,
          distribution_cache, aggregate_rules_cache, per_image_rule_report_cache,
          threads>>

searchVars == <<query, scan>>

caches == <<distribution_cache, aggregate_rules_cache, per_image_rule_report_cache>>

----------------------------------------------------------------------------
(* Bounds of the model                                                     *)

MaxTiles == 2
MaxRules == 2
MaxPage == 2

----------------------------------------------------------------------------
(* Values: SQLite / JSON scalars are tagged so that numbers, text and NULL *)
(* are told apart the way Python and SQLite tell them apart.               *)

Null == [t |-> "null", n |-> 0, s |-> ""]
Num(n) == [t |-> "num", n |-> n, s |-> ""]
Str(s) == [t |-> "str", n |-> 0, s |-> s]

\* Text in code-point (= SQLite BINARY collation) order.
StrOrder == <<"100", "5", "a.json", "b.json", "bad", "it's", "ok", "ok' OR '1'='1">>
StrRank(s) == CHOOSE i \in 1..Len(StrOrder) : StrOrder[i] = s

\* str(i) for the rule indices used as dictionary keys and CASE labels.
IdxStr == <<"0", "1", "2", "3", "4", "5">>
LabelOf(i) == IdxStr[i + 1]

\* SQLite's TEXT affinity applied to a numeric literal, NUMERIC affinity
\* applied to a text literal (only well-formed numbers convert).
NumToText(n) == IF n = 100 THEN "100" ELSE IF n = 5 THEN "5" ELSE "?"
IsNumericText(s) == s \in {"100", "5"}
TextToNum(s) == IF s = "100" THEN 100 ELSE 5

\* str.upper() and str.lower() on the strings the requests carry.
Upper(s) ==
    CASE s = "and" -> "AND"
      [] s = "or" -> "OR"
      [] s = "Or" -> "OR"
      [] s = "xor" -> "XOR"
      [] s = "asc" -> "ASC"
      [] s = "desc" -> "DESC"
      [] s = "Desc" -> "DESC"
      [] s = "sideways" -> "SIDEWAYS"
      [] OTHER -> s

Lower(s) ==
    CASE s = "ASC" -> "asc"
      [] s = "DESC" -> "desc"
      [] s = "Desc" -> "desc"
      [] OTHER -> s

ValidOps == {">", "<", ">=", "<=", "==", "!="}

\* Variant of OpHolds in which > and < also hold for equal operands.
OpHoldsInclusive(op, c) ==
    CASE op = ">" -> c >= 0
      [] op = "<" -> c <= 0
      [] op = ">=" -> c >= 0
      [] op = "<=" -> c <= 0
      [] op = "==" -> c = 0
      [] op = "!=" -> c # 0
      [] OTHER -> FALSE

\* The six comparison lambdas of `ops`, on a three-way comparison result.
OpHolds(op, c) ==
    CASE op = ">" -> c > 0
      [] op = "<" -> c < 0
      [] op = ">=" -> c >= 0
      [] op = "<=" -> c <= 0
      [] op = "==" -> c = 0
      [] op = "!=" -> c # 0

Sign(x, y) == IF x < y THEN -1 ELSE IF x > y THEN 1 ELSE 0

RECURSIVE SumSeq(_)
SumSeq(s) == IF s = <<>> THEN 0 ELSE Head(s) + SumSeq(Tail(s))

SeqsUpTo(S, n) == UNION {[1..k -> S] : k \in 0..n}

----------------------------------------------------------------------------
(* The store.  SourceFiles and ImageTiles as created by create_database,   *)
(* Models and Predictions as added by update_schema_for_models.  A row id  *)
(* is the row's position in its table.                                     *)

SourceFileNames == <<"a.json", "b.json">>

\* The tiles a metrics JSON file can hold, with the prediction rows that
\* ingest_predictions has written for them (model_id, score, class).
TilePool ==
    << [file |-> 1, laplacian |-> Num(50), status |-> Str("ok"), preds |-> <<>>],
       [file |-> 1, laplacian |-> Num(150), status |-> Null,
        preds |-> <<[model_id |-> 1, score |-> Num(9), predicted_class |-> Str("ok")]>>],
       [file |-> 1, laplacian |-> Num(100), status |-> Str("ok"),
        preds |-> <<[model_id |-> 1, score |-> Num(9), predicted_class |-> Str("ok")],
                    [model_id |-> 2, score |-> Num(1), predicted_class |-> Str("bad")]>>],
       [file |-> 2, laplacian |-> Null, status |-> Str("bad"),
        preds |-> <<[model_id |-> 2, score |-> Num(1), predicted_class |-> Str("bad")]>>] >>

ModelLists == {<<>>, <<"m1", "m2">>}

\* col of the k-th chosen tile: its ordinal among the tiles of its file.
ColOf(idxs, k) ==
    Cardinality({j \in 1..(k - 1) : TilePool[idxs[j]].file = TilePool[idxs[k]].file})

RECURSIVE PredictionRows(_, _, _)
PredictionRows(idxs, models, k) ==
    IF k > Len(idxs) \/ models = <<>> THEN <<>>
    ELSE [p \in 1..Len(TilePool[idxs[k]].preds) |->
             [tile_id |-> k,
              model_id |-> TilePool[idxs[k]].preds[p].model_id,
              score |-> TilePool[idxs[k]].preds[p].score,
              predicted_class |-> TilePool[idxs[k]].preds[p].predicted_class]]
         \o PredictionRows(idxs, models, k + 1)

MakeDb(idxs, models) ==
    [SourceFiles |-> SourceFileNames,
     ImageTiles |-> [k \in 1..Len(idxs) |->
                       [id |-> Num(k),
                        source_file_id |-> Num(TilePool[idxs[k]].file),
                        status |-> TilePool[idxs[k]].status,
                        col |-> Num(ColOf(idxs, k)),
                        row |-> Num(0),
                        laplacian |-> TilePool[idxs[k]].laplacian]],
     Models |-> models,
     Predictions |-> PredictionRows(idxs, models, 1)]

\* Tiles are inserted file by file, so the chosen pool indices are ordered.
TileChoices ==
    {s \in SeqsUpTo(1..Len(TilePool), MaxTiles) :
        \A j \in 1..(Len(s) - 1) : s[j] <= s[j + 1]}

Stores == {MakeDb(idxs, models) : idxs \in TileChoices, models \in ModelLists}

TilesOfFile(d, file_id) ==
    SelectSeq(d.ImageTiles, LAMBDA t : t.source_file_id = Num(file_id))

FileIds(d) == 1..Len(d.SourceFiles)

----------------------------------------------------------------------------
(* Rule sets (HeatmapRulesConfig)                                          *)

Cond(k, o, v) == [key |-> k, op |-> o, value |-> v]

RulePool ==
    { [name |-> "sharp", color |-> "red",
       rule_group |-> [logical_op |-> "AND",
                       conditions |-> <<Cond("laplacian", ">", Num(100))>>]],
      [name |-> "", color |-> "blue",
       rule_group |-> [logical_op |-> "or",
                       conditions |-> <<Cond("status", "==", Str("ok")),
                                        Cond("laplacian", ">=", Num(100))>>]],
      [name |-> "all", color |-> "green",
       rule_group |-> [logical_op |-> "AND", conditions |-> <<>>]],
      [name |-> "ghost", color |-> "black",
       rule_group |-> [logical_op |-> "AND",
                       conditions |-> <<Cond("nonexistent_field", ">", Num(5)),
                                        Cond("laplacian", "LIKE", Num(100))>>]],
      [name |-> "scored", color |-> "gold",
       rule_group |-> [logical_op |-> "OR",
                       conditions |-> <<Cond("model_score", ">", Num(5))>>]],
      [name |-> "mixed", color |-> "white",
       rule_group |-> [logical_op |-> "AND",
                       conditions |-> <<Cond("status", ">", Num(100))>>]] }

RuleSets ==
    {[default_color |-> "gray", rules |-> rs] : rs \in SeqsUpTo(RulePool, MaxRules)}

NoFile == [default_color |-> "", rules |-> <<>>, absent |-> TRUE]

----------------------------------------------------------------------------
(* The in-memory engine: backend/main.py                                   *)

\* op_func(tile_val, cond.value): "T", "F", or "ERR" for Python's TypeError.
PyCompare(op, a, b) ==
    IF a.t = b.t
    THEN IF (IF a.t = "num" THEN OpHolds(op, Sign(a.n, b.n))
                            ELSE OpHolds(op, Sign(StrRank(a.s), StrRank(b.s))))
         THEN "T" ELSE "F"
    ELSE IF op = "==" THEN "F"
    ELSE IF op = "!=" THEN "T"
    ELSE "ERR"

\* Variant of CondResult without the `is not None` test.
CondResultNullCompared(tile, cond) ==
    IF cond.key \in DOMAIN tile
    THEN IF cond.op \in ValidOps
         THEN PyCompare(cond.op, tile[cond.key], cond.value)
         ELSE "F"
    ELSE "F"

CondResult(tile, cond) ==
    IF cond.key \in DOMAIN tile /\ tile[cond.key] # Null
    THEN IF cond.op \in ValidOps
         THEN PyCompare(cond.op, tile[cond.key], cond.value)
         ELSE "F"
    ELSE "F"

\* Variant of evaluate_rule_group in which an empty AND group is false.
evaluate_rule_group_nonempty(tile, group) ==
    LET results == [k \in 1..Len(group.conditions) |->
                        CondResult(tile, group.conditions[k])]
    IN  IF \E k \in DOMAIN results : results[k] = "ERR" THEN "ERR"
        ELSE IF Upper(group.logical_op) = "AND"
             THEN IF results # <<>> /\ \A k \in DOMAIN results : results[k] = "T"
                  THEN "T" ELSE "F"
        ELSE IF Upper(group.logical_op) = "OR"
             THEN IF \E k \in DOMAIN results : results[k] = "T" THEN "T" ELSE "F"
        ELSE "F"

evaluate_rule_group(tile, group) ==
    LET results == [k \in 1..Len(group.conditions) |->
                        CondResult(tile, group.conditions[k])]
    IN  IF \E k \in DOMAIN results : results[k] = "ERR" THEN "ERR"
        ELSE IF Upper(group.logical_op) = "AND"
             THEN IF \A k \in DOMAIN results : results[k] = "T" THEN "T" ELSE "F"
        ELSE IF Upper(group.logical_op) = "OR"
             THEN IF \E k \in DOMAIN results : results[k] = "T" THEN "T" ELSE "F"
        ELSE "F"

\* The inner loop `for i, rule in enumerate(rules)` with its break: the label
\* of the first matching rule, "default" when none matches, "ERR" when an
\* evaluation raises before any rule matched.
RECURSIVE FirstMatch(_, _, _)
FirstMatch(tile, rules, i) ==
    IF i > Len(rules) THEN "default"
    ELSE LET m == evaluate_rule_group(tile, rules[i].rule_group)
         IN  IF m = "ERR" THEN "ERR"
             ELSE IF m = "T" THEN LabelOf(i - 1)
             ELSE FirstMatch(tile, rules, i + 1)

Labels(rules) == {LabelOf(i) : i \in 0..(Len(rules) - 1)} \cup {"default"}

ZeroCounts(rules) == [l \in Labels(rules) |-> 0]

\* Variant of CountStep in which matched_by_rule is never set.
CountStepNoFlag(counts, tile, rules) ==
    LET l == FirstMatch(tile, rules, 1)
    IN  [c \in DOMAIN counts |->
            IF c = l \/ c = "default" THEN counts[c] + 1 ELSE counts[c]]

\* One pass of the outer loop `for tile in tiles`: exactly one counter moves.
CountStep(counts, tile, rules) ==
    LET l == FirstMatch(tile, rules, 1)
    IN  [counts EXCEPT ![l] = @ + 1]

RECURSIVE CountTiles(_, _, _)
CountTiles(tiles, rules, counts) ==
    IF tiles = <<>> THEN counts
    ELSE CountTiles(Tail(tiles), rules, CountStep(counts, Head(tiles), rules))

Raises(tiles, rules) ==
    \E k \in 1..Len(tiles) : FirstMatch(tiles[k], rules, 1) = "ERR"

----------------------------------------------------------------------------
(* The compiled engine: lib/reporting.py generate_report_data              *)

VALID_COLUMNS ==
    {"status", "col", "row", "size", "laplacian", "avg_brightness",
     "avg_saturation", "entropy", "edge_density", "edge_density_3060",
     "foreground_ratio", "max_subject_area", "model_score", "model_classification"}

ModelKeys == {"model_score", "model_classification"}

\* Variant of needs_prediction_join that asks for the join for every rule set.
needs_prediction_join_always(rules) == TRUE

needs_prediction_join(rules) ==
    \E i \in 1..Len(rules) :
        \E k \in 1..Len(rules[i].rule_group.conditions) :
            rules[i].rule_group.conditions[k].key \in ModelKeys

\* The join is added only when a model is registered.
JoinActive(d, rules) == needs_prediction_join(rules) /\ d.Models # <<>>

NoPrediction == [score |-> Null, predicted_class |-> Null]

\* The rows of the FROM clause for one tile: ImageTiles JOIN SourceFiles,
\* and with the join active LEFT JOIN Predictions ON T.id = P.tile_id: one
\* row per prediction row of the tile, of whatever model.
RowsOfTile(d, tile, join) ==
    LET fname == d.SourceFiles[tile.source_file_id.n]
        ps == SelectSeq(d.Predictions, LAMBDA p : p.tile_id = tile.id.n)
    IN  IF join /\ ps # <<>>
        THEN [k \in 1..Len(ps) |->
                 [T |-> tile, json_filename |-> fname,
                  P |-> [score |-> ps[k].score,
                         predicted_class |-> ps[k].predicted_class]]]
        ELSE <<[T |-> tile, json_filename |-> fname, P |-> NoPrediction]>>

RECURSIVE JoinedRows(_, _, _)
JoinedRows(d, tiles, join) ==
    IF tiles = <<>> THEN <<>>
    ELSE RowsOfTile(d, Head(tiles), join) \o JoinedRows(d, Tail(tiles), join)

TextColumns == {"status", "model_classification", "json_filename", "webp_filename"}

\* SQLite comparison of a column value with a literal or bound value: NULL
\* gives NULL; the column's affinity is applied to the other operand;
\* numbers sort before text.
SqlCompare(key, op, colval, lit) ==
    IF colval = Null \/ lit = Null THEN "N"
    ELSE LET v == IF key \in TextColumns /\ lit.t = "num"
                      THEN Str(NumToText(lit.n))
                  ELSE IF key \notin TextColumns /\ lit.t = "str" /\ IsNumericText(lit.s)
                      THEN Num(TextToNum(lit.s))
                  ELSE lit
             c == IF colval.t = v.t
                  THEN IF v.t = "num" THEN Sign(colval.n, v.n)
                                      ELSE Sign(StrRank(colval.s), StrRank(v.s))
                  ELSE IF colval.t = "num" THEN -1 ELSE 1
         IN  IF OpHolds(op, c) THEN "T" ELSE "F"

ColumnValue(row, key) ==
    IF key = "model_score" THEN row.P.score
    ELSE IF key = "model_classification" THEN row.P.predicted_class
    ELSE IF key = "json_filename" THEN Str(row.json_filename)
    ELSE row.T[key]

\* The conditions of a rule that reach the CASE statement.
KeptConditions(rule) ==
    SelectSeq(rule.rule_group.conditions,
              LAMBDA c : c.key \in VALID_COLUMNS /\ c.op \in ValidOps)

\* value.split("'"): the parts of a string between its quote characters.
QuoteSplit(s) ==
    CASE s = "ok' OR '1'='1" -> <<"ok", " OR ", "1", "=", "1">>
      [] s = "it's" -> <<"it", "s">>
      [] OTHER -> <<s>>

\* sql_value as SQLite reads it inside the condition.  A number is a numeric
\* literal.  A string is put between two quotes: the literal ends at the
\* first quote of the string itself, and what follows is read as SQL, the
\* parts alternately outside and inside quotes.  Any other value is written
\* with str(): None is read as a column name.
sql_value(value) ==
    IF value.t = "num" THEN [kind |-> "numeric", literal |-> value, rest |-> <<>>]
    ELSE IF value.t = "str"
    THEN [kind |-> "string", literal |-> Str(Head(QuoteSplit(value.s))),
          rest |-> Tail(QuoteSplit(value.s))]
    ELSE [kind |-> "name", literal |-> Null, rest |-> <<>>]

\* The truth value of the SQL that follows the literal: none, OR 'a' = 'b',
\* or a syntax error (an unterminated literal, or tokens that form no
\* expression).
RestValue(rest) ==
    IF rest = <<>> THEN "none"
    ELSE IF Len(rest) = 4 /\ rest[1] = " OR " /\ rest[3] = "="
    THEN IF rest[2] = rest[4] THEN "T" ELSE "F"
    ELSE "ERR"

\* The statement cannot be prepared: sqlite raises OperationalError.
Malformed(literal) == literal.kind = "name" \/ RestValue(literal.rest) = "ERR"

\* (db_column op sql_value) on one row.
ConditionValue(row, cond, literal) ==
    LET c == SqlCompare(cond.key, cond.op, ColumnValue(row, cond.key), literal.literal)
        r == RestValue(literal.rest)
    IN  IF r = "none" THEN c
        ELSE IF c = "T" \/ r = "T" THEN "T"
        ELSE IF c = "N" THEN "N" ELSE "F"

\* Variant of WhenIndex: the branch's position among the branches kept.
WhenIndexPosition(rules, i) ==
    Cardinality({j \in 1..i : KeptConditions(rules[j]) # <<>>}) - 1

\* The index a WHEN branch returns: the rule's position in the rule list.
WhenIndex(rules, i) == i - 1

\* when_clauses: one branch per rule that kept a condition.
RECURSIVE WhenClauses(_, _)
WhenClauses(rules, i) ==
    IF i > Len(rules) THEN <<>>
    ELSE (IF KeptConditions(rules[i]) # <<>>
          THEN <<[conds |-> KeptConditions(rules[i]),
                  literals |-> [k \in 1..Len(KeptConditions(rules[i])) |->
                                  sql_value(KeptConditions(rules[i])[k].value)],
                  joiner |-> IF Upper(rules[i].rule_group.logical_op) = "AND"
                             THEN "AND" ELSE "OR",
                  label |-> LabelOf(WhenIndex(rules, i))]>>
          ELSE <<>>)
         \o WhenClauses(rules, i + 1)

\* SQL three-valued AND / OR over the branch's conditions on one row.
WhenValue(row, clause) ==
    LET r == [k \in 1..Len(clause.conds) |->
                 ConditionValue(row, clause.conds[k], clause.literals[k])]
    IN  IF clause.joiner = "AND"
        THEN IF \E k \in DOMAIN r : r[k] = "F" THEN "F"
             ELSE IF \E k \in DOMAIN r : r[k] = "N" THEN "N" ELSE "T"
        ELSE IF \E k \in DOMAIN r : r[k] = "T" THEN "T"
             ELSE IF \E k \in DOMAIN r : r[k] = "N" THEN "N" ELSE "F"

\* CASE WHEN .. THEN 'i' .. ELSE 'default' END on one row.
RECURSIVE CaseLabel(_, _)
CaseLabel(row, clauses) ==
    IF clauses = <<>> THEN "default"
    ELSE IF WhenValue(row, Head(clauses)) = "T" THEN Head(clauses).label
    ELSE CaseLabel(row, Tail(clauses))

\* The query names P.score / P.predicted_class without the join, or a
\* condition's value is not read as one literal: sqlite raises
\* OperationalError.
QueryFails(d, rules) ==
    \/ /\ ~JoinActive(d, rules)
       /\ \E i \in 1..Len(rules) :
             \E k \in 1..Len(KeptConditions(rules[i])) :
                 KeptConditions(rules[i])[k].key \in ModelKeys
    \/ \E i \in 1..Len(rules) :
          \E k \in 1..Len(KeptConditions(rules[i])) :
              Malformed(sql_value(KeptConditions(rules[i])[k].value))

\* COUNT(T.id) ... GROUP BY S.json_filename, matched_rule_index
GroupCount(d, rules, file_id, label) ==
    LET rows == JoinedRows(d, TilesOfFile(d, file_id), JoinActive(d, rules))
    IN  Cardinality({k \in 1..Len(rows) :
                        CaseLabel(rows[k], WhenClauses(rules, 1)) = label})

\* total_counts: the files that have at least one tile.
total_counts(d) ==
    [f \in {g \in FileIds(d) : TilesOfFile(d, g) # <<>>} |-> Len(TilesOfFile(d, f))]

\* Variant of NonDefaultSum that adds the default row as well.
SumOfAllCounts(counts) ==
    LET RECURSIVE S(_)
        S(ls) == IF ls = {} THEN 0
                 ELSE LET l == CHOOSE x \in ls : TRUE IN counts[l] + S(ls \ {l})
    IN  S(DOMAIN counts)

\* matched_sum: the sum of the counts of every label but default.
NonDefaultSum(counts) ==
    LET RECURSIVE S(_)
        S(ls) == IF ls = {} THEN 0
                 ELSE LET l == CHOOSE x \in ls : TRUE IN counts[l] + S(ls \ {l})
    IN  S(DOMAIN counts \ {"default"})

\* counts['default'] = total_tiles - matched_sum
DefaultCount(total_tiles, counts) == total_tiles - NonDefaultSum(counts)

ReportCounts(d, rules, file_id) ==
    LET counted == [l \in Labels(rules) |-> GroupCount(d, rules, file_id, l)]
    IN  [counted EXCEPT !["default"] = DefaultCount(total_counts(d)[file_id], counted)]

\* from_clause: the tables of the query, in join order.
from_clause(d, rules) ==
    IF JoinActive(d, rules)
    THEN <<"ImageTiles T", "SourceFiles S", "Predictions P", "Models M">>
    ELSE <<"ImageTiles T", "SourceFiles S">>

\* params: the name of the last registered model when the join is added.
report_params(d, rules) ==
    IF JoinActive(d, rules) THEN <<d.Models[Len(d.Models)]>> ELSE <<>>

\* The text of the report query, by its parts.
ReportQuery(d, rules) ==
    [from_clause |-> from_clause(d, rules),
     params |-> report_params(d, rules),
     when_clauses |-> WhenClauses(rules, 1)]

generate_report_data(d, config) ==
    IF QueryFails(d, config.rules)
    THEN [op |-> "generate_report_data", status |-> "error",
          query |-> ReportQuery(d, config.rules)]
    ELSE [op |-> "generate_report_data", status |-> "ok",
          query |-> ReportQuery(d, config.rules),
          report |-> [f \in DOMAIN total_counts(d) |->
                        [total_tiles |-> total_counts(d)[f],
                         counts |-> ReportCounts(d, config.rules, f)]]]

----------------------------------------------------------------------------
(* The report script: scripts/generate_rule_report.py                      *)

ReportFormats == {"wide", "long"}

\* rule_name of a detail: the rule's name, none ("") for default.
rule_name(rules, l) ==
    IF l = "default" THEN ""
    ELSE rules[(CHOOSE i \in 1..Len(rules) : LabelOf(i - 1) = l)].name

\* detail['rule_name'] if detail['rule_name'] else 'default'
ColumnName(rules, l) ==
    IF rule_name(rules, l) = "" THEN "default" ELSE rule_name(rules, l)

\* The details of a file in the order of counts.items(): the rules by index,
\* then default.
DetailOrder(rules) == [i \in 1..(Len(rules) + 1) |->
                         IF i <= Len(rules) THEN LabelOf(i - 1) ELSE "default"]

\* The detail whose assignment to row[name] is the last one.
LastDetail(rules, name) ==
    LET order == DetailOrder(rules)
        i == CHOOSE k \in 1..Len(order) :
                /\ ColumnName(rules, order[k]) = name
                /\ \A j \in (k + 1)..Len(order) : ColumnName(rules, order[j]) # name
    IN  order[i]

\* round(count / total * 100, 2) if total > 0 else 0, in hundredths of a
\* percent.
RoundedPercentage(count, total) ==
    IF total > 0 THEN (count * 10000 * 2 + total) \div (2 * total) ELSE 0

WideColumns(rules) == {ColumnName(rules, l) : l \in Labels(rules)}

\* One row of the wide format: a count and a percentage column per name.
WideRow(file_report, rules) ==
    [total_tiles |-> file_report.total_tiles,
     columns |-> [name \in WideColumns(rules) |->
                    LET count == file_report.counts[LastDetail(rules, name)]
                    IN  [count |-> count,
                         percentage |-> RoundedPercentage(count, file_report.total_tiles)]]]

SumOver(f, S) ==
    LET RECURSIVE Sum(_)
        Sum(xs) == IF xs = {} THEN 0
                   ELSE LET x == CHOOSE y \in xs : TRUE IN f[x] + Sum(xs \ {x})
    IN  Sum(S)

\* The TOTALS row: the sum of every count column and of total_tiles, and the
\* percentage of each summed count.
summary_row(rows, rules) ==
    LET total_tiles_in_db == SumOver([f \in DOMAIN rows |-> rows[f].total_tiles], DOMAIN rows)
    IN  [total_tiles |-> total_tiles_in_db,
         columns |-> [name \in WideColumns(rules) |->
                        LET count == SumOver([f \in DOMAIN rows |-> rows[f].columns[name].count],
                                             DOMAIN rows)
                        IN  [count |-> count,
                             percentage |-> RoundedPercentage(count, total_tiles_in_db)]]]

\* The rows of the long format: one per file and detail.
long_rows(report, rules) ==
    [f \in DOMAIN report |->
        [i \in 1..Len(DetailOrder(rules)) |->
            [total_tiles_in_file |-> report[f].total_tiles,
             rule_name |-> ColumnName(rules, DetailOrder(rules)[i]),
             match_count |-> report[f].counts[DetailOrder(rules)[i]]]]]

\* create_report: the rows written to the CSV file, or the reason why no
\* file is written.
create_report(d, config, report_format) ==
    LET data == generate_report_data(d, config)
    IN  IF data.status # "ok"
        THEN [op |-> "create_report", status |-> "error", format |-> report_format]
        ELSE IF DOMAIN data.report = {}
        THEN [op |-> "create_report", status |-> "no_data", format |-> report_format]
        ELSE IF report_format = "wide"
        THEN LET rows == [f \in DOMAIN data.report |-> WideRow(data.report[f], config.rules)]
             IN  [op |-> "create_report", status |-> "ok", format |-> report_format,
                  rows |-> rows, totals |-> summary_row(rows, config.rules)]
        ELSE [op |-> "create_report", status |-> "ok", format |-> report_format,
              rows |-> long_rows(data.report, config.rules)]

----------------------------------------------------------------------------
(* The in-memory endpoints: backend/main.py                                *)

\* heatmap_data[index] = rule.color of the first matching rule; a cell no
\* rule matched keeps default_color.
CellColor(tile, config) ==
    LET l == FirstMatch(tile, config.rules, 1)
    IN  IF l = "default" THEN config.default_color
        ELSE config.rules[(CHOOSE i \in 1..Len(config.rules) : LabelOf(i - 1) = l)].color

MaxOf(S) == CHOOSE x \in S : \A y \in S : y <= x

generate_heatmap(d, file_id, config) ==
    LET tiles == TilesOfFile(d, file_id)
        grid_width == MaxOf({tiles[k].col.n : k \in 1..Len(tiles)}) + 1
        grid_height == MaxOf({tiles[k].row.n : k \in 1..Len(tiles)}) + 1
    IN  IF tiles = <<>>
        THEN [op |-> "generate_heatmap", status |-> "ok", file |-> file_id,
              grid_width |-> 0, grid_height |-> 0, heatmap_data |-> <<>>,
              total |-> 0, rule_match_counts |-> <<>>]
        ELSE IF Raises(tiles, config.rules)
        THEN [op |-> "generate_heatmap", status |-> "error", file |-> file_id]
        ELSE [op |-> "generate_heatmap", status |-> "ok", file |-> file_id,
              grid_width |-> grid_width, grid_height |-> grid_height,
              heatmap_data |->
                 [c \in 1..(grid_width * grid_height) |->
                    IF \E k \in 1..Len(tiles) :
                          tiles[k].row.n * grid_width + tiles[k].col.n = c - 1
                    THEN CellColor(tiles[CHOOSE k \in 1..Len(tiles) :
                                   /\ tiles[k].row.n * grid_width + tiles[k].col.n = c - 1
                                   /\ \A j \in (k + 1)..Len(tiles) :
                                        tiles[j].row.n * grid_width + tiles[j].col.n # c - 1],
                                   config)
                    ELSE config.default_color],
              total |-> Len(tiles),
              rule_match_counts |-> CountTiles(tiles, config.rules, ZeroCounts(config.rules))]

\* The computation of get_aggregate_heatmap_rules over all tiles.
aggregate_heatmap_rules(d, config) ==
    IF d.ImageTiles = <<>>
    THEN [op |-> "get_aggregate_heatmap_rules", status |-> "ok",
          rule_match_counts |-> <<>>, total_tiles_evaluated |-> 0]
    ELSE IF Raises(d.ImageTiles, config.rules)
    THEN [op |-> "get_aggregate_heatmap_rules", status |-> "error"]
    ELSE [op |-> "get_aggregate_heatmap_rules", status |-> "ok",
          rule_match_counts |-> CountTiles(d.ImageTiles, config.rules, ZeroCounts(config.rules)),
          total_tiles_evaluated |-> Len(d.ImageTiles)]

\* (count / total) * 100 as the exact fraction num / den; Python raises
\* ZeroDivisionError for total = 0.
Percentage(count, total) ==
    IF total = 0 THEN [error |-> "ZeroDivisionError"]
    ELSE [num |-> count * 100, den |-> total]

\* rule_match_details of one file: count and percentage of default and of
\* every rule.
rule_match_details(counts, total) ==
    [l \in DOMAIN counts |->
        [count |-> counts[l], percentage |-> Percentage(counts[l], total)]]

\* The computation of get_per_image_rule_report: one entry per source file.
per_image_rule_report(d, config) ==
    IF Raises(d.ImageTiles, config.rules)
    THEN [op |-> "get_per_image_rule_report", status |-> "error"]
    ELSE [op |-> "get_per_image_rule_report", status |-> "ok",
          report_data |->
             [f \in FileIds(d) |->
                IF TilesOfFile(d, f) = <<>>
                THEN [total_tiles_evaluated_for_file |-> 0, counts |-> <<>>,
                      rule_match_details |-> <<>>]
                ELSE LET counts == CountTiles(TilesOfFile(d, f), config.rules,
                                              ZeroCounts(config.rules))
                     IN  [total_tiles_evaluated_for_file |-> Len(TilesOfFile(d, f)),
                          counts |-> counts,
                          rule_match_details |->
                             rule_match_details(counts, Len(TilesOfFile(d, f)))]]]

----------------------------------------------------------------------------
(* Classification requests over a fixed store and a saved rule set "rs".   *)
(* Neither changes here, so a result served from a cache equals the one    *)
(* computed; the caches are exercised under CacheSpec below.               *)

RuleNames == {"rs"}

NoResponse == [op |-> "none", status |-> "none"]

NoQuery == [built |-> FALSE]

NoScan == [active |-> FALSE]

\* A cache key with no entry.
NotCached == [op |-> "none", status |-> "absent"]

StatColumns == {"laplacian", "status"}

Threads == {"t1", "t2"}

Idle == [op |-> "idle", pc |-> "idle"]

\* The module-level state of a fresh process: empty caches, no request running.
ColdStart ==
    /\ distribution_cache = [c \in StatColumns |-> NotCached]
    /\ aggregate_rules_cache = [n \in RuleNames |-> NotCached]
    /\ per_image_rule_report_cache = [n \in RuleNames |-> NotCached]
    /\ threads = [t \in Threads |-> Idle]

Init ==
    /\ db \in Stores
    /\ \E config \in RuleSets : saved_rules = [n \in RuleNames |-> config]
    /\ response = NoResponse
    /\ query = NoQuery
    /\ scan = NoScan
    /\ ColdStart

GenerateHeatmap ==
    \E f \in FileIds(db), n \in RuleNames :
        /\ response' = generate_heatmap(db, f, saved_rules[n])
        /\ UNCHANGED <<db, saved_rules, searchVars, caches, threads>>

GetAggregateHeatmapRules ==
    \E n \in RuleNames :
        /\ response' = aggregate_heatmap_rules(db, saved_rules[n])
        /\ UNCHANGED <<db, saved_rules, searchVars, caches, threads>>

GetPerImageRuleReport ==
    \E n \in RuleNames :
        /\ response' = per_image_rule_report(db, saved_rules[n])
        /\ UNCHANGED <<db, saved_rules, searchVars, caches, threads>>

GenerateReportData ==
    \E n \in RuleNames :
        /\ response' = generate_report_data(db, saved_rules[n])
        /\ UNCHANGED <<db, saved_rules, searchVars, caches, threads>>

CreateReport ==
    \E n \in RuleNames, report_format \in ReportFormats :
        /\ response' = create_report(db, saved_rules[n], report_format)
        /\ UNCHANGED <<db, saved_rules, searchVars, caches, threads>>

Next ==
    \/ GenerateHeatmap
    \/ GetAggregateHeatmapRules
    \/ GetPerImageRuleReport
    \/ GenerateReportData
    \/ CreateReport

Spec == Init /\ [][Next]_vars

----------------------------------------------------------------------------
(* Properties of the classification engines                                *)

TheConfig == saved_rules["rs"]

CountSum(counts) ==
    LET RECURSIVE S(_)
        S(ls) == IF ls = {} THEN 0
                 ELSE LET l == CHOOSE x \in ls : TRUE IN counts[l] + S(ls \ {l})
    IN  S(DOMAIN counts)

CountAt(counts, l) == IF l \in DOMAIN counts THEN counts[l] ELSE 0

TileColumns == {"id", "source_file_id", "status", "col", "row", "laplacian"}

FieldsInSchema(config) ==
    \A i \in 1..Len(config.rules) :
        \A k \in 1..Len(config.rules[i].rule_group.conditions) :
            config.rules[i].rule_group.conditions[k].key \in TileColumns

\* C1: engine equivalence.  For a rule set whose condition fields are all
\* columns of the tile record, the compiled report gives, for every source
\* file, the per-rule counts and the default count that the in-memory
\* per-image report gives.
C1_EngineEquivalence ==
    (response.op = "generate_report_data" /\ FieldsInSchema(TheConfig)) =>
        LET mem == per_image_rule_report(db, TheConfig)
        IN  /\ response.status = "ok"
            /\ mem.status = "ok"
            /\ \A f \in FileIds(db) : \A l \in Labels(TheConfig.rules) :
                  CountAt(mem.report_data[f].counts, l)
                    = IF f \in DOMAIN response.report
                      THEN response.report[f].counts[l] ELSE 0

\* C2: partition invariant.  In every classification result the per-rule
\* counts plus the default count add up to the number of records of the
\* group, and the compiled report's default is total minus the rule counts.
C2_PartitionInvariant ==
    response.status = "ok" =>
        /\ response.op = "generate_heatmap" =>
              CountSum(response.rule_match_counts)
                = Len(TilesOfFile(db, response.file))
        /\ response.op = "get_aggregate_heatmap_rules" =>
              /\ CountSum(response.rule_match_counts) = Len(db.ImageTiles)
              /\ response.total_tiles_evaluated = Len(db.ImageTiles)
        /\ response.op = "get_per_image_rule_report" =>
              \A f \in FileIds(db) :
                  CountSum(response.report_data[f].counts)
                    = Len(TilesOfFile(db, f))
        /\ response.op = "generate_report_data" =>
              \A f \in DOMAIN response.report :
                  /\ response.report[f].total_tiles = Len(TilesOfFile(db, f))
                  /\ CountSum(response.report[f].counts)
                       = response.report[f].total_tiles
                  /\ response.report[f].counts["default"]
                       = response.report[f].total_tiles
                           - NonDefaultSum(response.report[f].counts)

\* A heatmap over two tiles of which one matched a rule and one fell to default.
C2_Witness ==
    /\ response.op = "generate_heatmap"
    /\ response.status = "ok"
    /\ Len(TilesOfFile(db, response.file)) = 2
    /\ response.rule_match_counts["default"] = 1
    /\ "0" \in DOMAIN response.rule_match_counts
    /\ response.rule_match_counts["0"] = 1

\* C3: in the compiled report every tile of a file is counted once, so each
\* per-rule count and the default count lies between 0 and total_tiles.
C3_CountedOnce ==
    (response.op = "generate_report_data" /\ response.status = "ok") =>
        \A f \in DOMAIN response.report :
            \A l \in DOMAIN response.report[f].counts :
                /\ response.report[f].counts[l] >= 0
                /\ response.report[f].counts[l] <= response.report[f].total_tiles

\* A row of the FROM clause satisfies the compiled condition of rule i.
RowMatches(row, rules, i) ==
    /\ KeptConditions(rules[i]) # <<>>
    /\ WhenValue(row, [conds |-> KeptConditions(rules[i]),
                       literals |-> [k \in 1..Len(KeptConditions(rules[i])) |->
                                       sql_value(KeptConditions(rules[i])[k].value)],
                       joiner |-> IF Upper(rules[i].rule_group.logical_op) = "AND"
                                  THEN "AND" ELSE "OR",
                       label |-> ""]) = "T"

\* The number of records of s that match rule j and no rule before it.
FirstAt(s, j, M(_, _)) ==
    Cardinality({k \in 1..Len(s) : M(s[k], j) /\ \A i \in 1..(j - 1) : ~M(s[k], i)})

MemMatches(tile, i) == evaluate_rule_group(tile, TheConfig.rules[i].rule_group) = "T"

SqlMatches(row, i) == RowMatches(row, TheConfig.rules, i)

FileRows(f) == JoinedRows(db, TilesOfFile(db, f), JoinActive(db, TheConfig.rules))

----------------------------------------------------------------------------
(* The query compiler: backend/main.py search_tiles                        *)

ImageTilesColumns ==
    {"id", "source_file_id", "webp_filename", "status", "col", "row", "size",
     "laplacian", "avg_brightness", "avg_saturation", "entropy", "edge_density",
     "edge_density_3060", "foreground_ratio", "max_subject_area"}

SourceFilesColumns == {"id", "json_filename", "image_directory", "ingested_at"}

Prefix(key) == IF key = "json_filename" THEN "S" ELSE "T"

\* The filters whose operator is whitelisted, in request order.
ValidFilters(filters) == SelectSeq(filters, LAMBDA f : f.op \in ValidOps)

\* where_clauses: one "<prefix>.<key> <op> ?" per filter with a valid operator.
WhereClauses(filters) ==
    [k \in 1..Len(ValidFilters(filters)) |->
        [prefix |-> Prefix(ValidFilters(filters)[k].key),
         key |-> ValidFilters(filters)[k].key,
         op |-> ValidFilters(filters)[k].op,
         value |-> "?"]]

\* Variant of FilterParams that binds the value of every filter.
FilterParamsAll(filters) == [k \in 1..Len(filters) |-> filters[k].value]

\* params: the value of each filter that contributed a clause, in order.
FilterParams(filters) ==
    [k \in 1..Len(ValidFilters(filters)) |-> ValidFilters(filters)[k].value]

DefaultOrder == <<[prefix |-> "T", key |-> "id", order |-> "ASC"]>>

\* Variant of OrderByParts that applies an unrecognised order as descending.
OrderByPartsDescending(sort) ==
    IF sort = <<>> THEN DefaultOrder
    ELSE [k \in 1..Len(sort) |->
             [prefix |-> Prefix(sort[k].key), key |-> sort[k].key,
              order |-> IF Lower(sort[k].order) \in {"asc", "desc"}
                        THEN Upper(sort[k].order) ELSE "DESC"]]

OrderByParts(sort) ==
    IF sort = <<>> THEN DefaultOrder
    ELSE [k \in 1..Len(sort) |->
             [prefix |-> Prefix(sort[k].key), key |-> sort[k].key,
              order |-> IF Lower(sort[k].order) \in {"asc", "desc"}
                        THEN Upper(sort[k].order) ELSE "ASC"]]

\* Variant of Offset that skips the first page.
OffsetFromZero(page, limit) == page * limit

Offset(page, limit) == (page - 1) * limit

\* The two query texts and their parameter lists.
BuildQueries(request) ==
    [built |-> TRUE,
     count_query |-> [where |-> WhereClauses(request.filters)],
     count_params |-> FilterParams(request.filters),
     final_query |-> [where |-> WhereClauses(request.filters),
                      order_by |-> OrderByParts(request.sort),
                      pagination |-> "LIMIT ? OFFSET ?"],
     final_params |-> FilterParams(request.filters)
                        \o <<request.limit, Offset(request.page, request.limit)>>]

ColumnExists(c) ==
    IF c.prefix = "S" THEN c.key \in SourceFilesColumns
                      ELSE c.key \in ImageTilesColumns

\* The rows of ImageTiles T JOIN SourceFiles S, by tile id.
SearchRows(d) == JoinedRows(d, d.ImageTiles, FALSE)

RowSatisfies(row, where, params) ==
    \A k \in 1..Len(where) :
        SqlCompare(where[k].key, where[k].op, ColumnValue(row, where[k].key),
                   params[k]) = "T"

Matching(d, where, params) ==
    {k \in 1..Len(SearchRows(d)) : RowSatisfies(SearchRows(d)[k], where, params)}

\* SQLite's ORDER BY comparison: NULL first, then numbers, then text.
ValueCmp(a, b) ==
    LET class(v) == IF v.t = "null" THEN 0 ELSE IF v.t = "num" THEN 1 ELSE 2
    IN  IF class(a) # class(b) THEN Sign(class(a), class(b))
        ELSE IF a.t = "num" THEN Sign(a.n, b.n)
        ELSE IF a.t = "str" THEN Sign(StrRank(a.s), StrRank(b.s))
        ELSE 0

RECURSIVE RowCmp(_, _, _)
RowCmp(r1, r2, order_by) ==
    IF order_by = <<>> THEN 0
    ELSE LET c == ValueCmp(ColumnValue(r1, Head(order_by).key),
                           ColumnValue(r2, Head(order_by).key))
             c2 == IF Head(order_by).order = "DESC" THEN 0 - c ELSE c
         IN  IF c2 # 0 THEN c2 ELSE RowCmp(r1, r2, Tail(order_by))

Perms(S) ==
    {p \in [1..Cardinality(S) -> S] :
        \A i, j \in 1..Cardinality(S) : i # j => p[i] # p[j]}

\* The row orders ORDER BY allows: rows that compare equal on every sort
\* key may come in any order.
ValidOrders(d, ids, order_by) ==
    {p \in Perms(ids) :
        \A i, j \in 1..Len(p) :
            i < j => RowCmp(SearchRows(d)[p[i]], SearchRows(d)[p[j]], order_by) <= 0}

Min(a, b) == IF a < b THEN a ELSE b

\* cursor.execute(count_query, params), then cursor.execute(final_query,
\* params + [limit, offset]), with `order` the row order the sort produced.
\* A wrong number of bindings raises ProgrammingError (not caught: 500); an
\* unknown column raises OperationalError (caught: 400).
ExecuteQueries(d, q, order) ==
    IF Len(q.count_params) # Len(q.count_query.where)
    THEN [status |-> "error500"]
    ELSE IF \E k \in 1..Len(q.count_query.where) : ~ColumnExists(q.count_query.where[k])
    THEN [status |-> "error400"]
    ELSE IF Len(q.final_params) # Len(q.final_query.where) + 2
    THEN [status |-> "error500"]
    ELSE IF \/ \E k \in 1..Len(q.final_query.where) : ~ColumnExists(q.final_query.where[k])
            \/ \E k \in 1..Len(q.final_query.order_by) : ~ColumnExists(q.final_query.order_by[k])
    THEN [status |-> "error400"]
    ELSE LET limit == q.final_params[Len(q.final_params) - 1]
             offset == q.final_params[Len(q.final_params)]
         IN  [status |-> "ok",
              total_results |->
                  Cardinality(Matching(d, q.count_query.where, q.count_params)),
              results |-> SubSeq(order, offset + 1, Min(offset + limit, Len(order)))]

\* The ids the page query selects, before ordering.
FinalMatching(d, q) ==
    IF /\ Len(q.final_params) = Len(q.final_query.where) + 2
       /\ \A k \in 1..Len(q.final_query.where) : ColumnExists(q.final_query.where[k])
       /\ \A k \in 1..Len(q.final_query.order_by) : ColumnExists(q.final_query.order_by[k])
    THEN Matching(d, q.final_query.where, q.final_params)
    ELSE {}

SearchOrders(d, request) ==
    ValidOrders(d, FinalMatching(d, BuildQueries(request)),
                IF \A k \in 1..Len(OrderByParts(request.sort)) :
                       ColumnExists(OrderByParts(request.sort)[k])
                THEN OrderByParts(request.sort) ELSE <<>>)

search_tiles(d, request, order) ==
    LET result == ExecuteQueries(d, BuildQueries(request), order)
    IN  [op |-> "search_tiles", request |-> request,
         result |-> result, status |-> result.status]

----------------------------------------------------------------------------
(* Search requests over a fixed store                                      *)

Filter(k, o, v) == [key |-> k, op |-> o, value |-> v]

FilterLists ==
    { <<>>,
      <<Filter("laplacian", ">", Num(100))>>,
      <<Filter("json_filename", "==", Str("a.json"))>>,
      <<Filter("laplacian", "LIKE", Num(100))>>,
      <<Filter("nonexistent_field", ">", Num(5))>>,
      <<Filter("laplacian", "LIKE", Num(100)),
        Filter("json_filename", "==", Str("a.json"))>>,
      <<Filter("laplacian", ">", Num(100)),
        Filter("nonexistent_field", ">", Num(5))>> }

SortLists ==
    { <<>>,
      <<[key |-> "status", order |-> "Desc"]>>,
      <<[key |-> "laplacian", order |-> "sideways"]>>,
      <<[key |-> "nonexistent_field", order |-> "asc"]>>,
      <<[key |-> "json_filename", order |-> "asc"], [key |-> "id", order |-> "DESC"]>> }

PageSizes == {1, 2}

\* A client pages through one search: the filters, sort and limit of its
\* requests are fixed and it asks for pages in any order.
Session(filters, sort, limit) ==
    [active |-> TRUE, filters |-> filters, sort |-> sort, limit |-> limit,
     pages |-> 0, acc |-> <<>>]

Sessions ==
    {Session(filters, sort, limit) :
        filters \in FilterLists, sort \in SortLists, limit \in PageSizes}

RequestOf(sc, page) ==
    [filters |-> sc.filters, sort |-> sc.sort, page |-> page, limit |-> sc.limit]

\* The concatenation the client holds after the response: it starts again
\* at page 1, grows with the page after the last one, and is dropped by a
\* failure or a page out of turn.
NextScan(sc, resp) ==
    IF resp.status = "ok" /\ resp.request.page = 1
    THEN [sc EXCEPT !.pages = 1, !.acc = resp.result.results]
    ELSE IF resp.status = "ok" /\ sc.pages > 0 /\ resp.request.page = sc.pages + 1
    THEN [sc EXCEPT !.pages = @ + 1, !.acc = @ \o resp.result.results]
    ELSE [sc EXCEPT !.pages = 0, !.acc = <<>>]

SearchInit ==
    /\ db \in {MakeDb(idxs, <<>>) : idxs \in TileChoices}
    /\ saved_rules = [n \in RuleNames |-> NoFile]
    /\ response = NoResponse
    /\ query = NoQuery
    /\ scan \in Sessions
    /\ ColdStart

SearchTiles ==
    \E page \in 1..MaxPage :
        \E order \in SearchOrders(db, RequestOf(scan, page)) :
            LET resp == search_tiles(db, RequestOf(scan, page), order)
            IN  /\ response' = resp
                /\ query' = BuildQueries(RequestOf(scan, page))
                /\ scan' = NextScan(scan, resp)
                /\ UNCHANGED <<db, saved_rules, caches, threads>>

SearchNext == SearchTiles

SearchSpec == SearchInit /\ [][SearchNext]_vars

----------------------------------------------------------------------------
(* Properties of the query compiler                                        *)

IsSearch == response.op = "search_tiles"

KnownColumn(prefix, key) ==
    \/ prefix = "T" /\ key \in ImageTilesColumns
    \/ prefix = "S" /\ key \in SourceFilesColumns

SortKeysKnown(request) ==
    \A k \in 1..Len(request.sort) :
        KnownColumn(Prefix(request.sort[k].key), request.sort[k].key)

UnknownField(f) == ~KnownColumn(Prefix(f.key), f.key)

\* C6 (Scenario C): a search whose filters name a field that is not a column
\* of the record schema does not fail, and its total_results is that of the
\* same search with no filter, i.e. the number of records in the store.
C6_ScenarioC ==
    (/\ IsSearch
     /\ response.request.filters # <<>>
     /\ \A k \in 1..Len(response.request.filters) :
            UnknownField(response.request.filters[k])
     /\ SortKeysKnown(response.request)
     /\ db.ImageTiles # <<>>)
    => /\ response.status = "ok"
       /\ response.result.total_results = Len(db.ImageTiles)

WithoutBadOperators(request) ==
    [request EXCEPT !.filters = SelectSeq(@, LAMBDA f : f.op \in ValidOps)]

\* C7: a filter whose operator is outside the whitelist contributes neither a
\* WHERE clause nor a parameter, and the response is one the same request
\* without that filter produces.
C7_BadOperatorDropped ==
    IsSearch =>
        LET kept == WithoutBadOperators(response.request)
        IN  /\ Len(query.count_query.where) = Len(kept.filters)
            /\ Len(query.count_params) = Len(kept.filters)
            /\ Len(query.final_params) = Len(kept.filters) + 2
            /\ \A k \in 1..Len(query.final_query.where) :
                   query.final_query.where[k].op \in ValidOps
            /\ query = [BuildQueries(kept) EXCEPT !.built = TRUE]
            /\ \E order \in SearchOrders(db, kept) :
                   response.result = ExecuteQueries(db, BuildQueries(kept), order)

C7_Witness ==
    /\ IsSearch
    /\ \E k \in 1..Len(response.request.filters) :
           response.request.filters[k].op \notin ValidOps
    /\ Len(query.count_query.where) = 1
    /\ response.status = "ok"
    /\ response.result.total_results > 0
    /\ response.result.total_results < Len(db.ImageTiles)

\* C8: every column named in a query text built by search_tiles belongs to
\* the table its prefix names, every operator is in the whitelist, and the
\* values appear only as placeholders.
C8_InjectionSafety ==
    query.built =>
        /\ \A k \in 1..Len(query.final_query.where) :
               LET c == query.final_query.where[k]
               IN  KnownColumn(c.prefix, c.key) /\ c.op \in ValidOps /\ c.value = "?"
        /\ \A k \in 1..Len(query.count_query.where) :
               LET c == query.count_query.where[k]
               IN  KnownColumn(c.prefix, c.key) /\ c.op \in ValidOps /\ c.value = "?"
        /\ \A k \in 1..Len(query.final_query.order_by) :
               LET c == query.final_query.order_by[k]
               IN  KnownColumn(c.prefix, c.key) /\ c.order \in {"ASC", "DESC"}

\* C9: the concatenation of pages 1..N of one search is the first N*P
\* records of one full sorted scan: no record twice, none left out.
C9_PaginationDeterminism ==
    scan.active /\ scan.pages > 0 =>
        \E full \in SearchOrders(db, RequestOf(scan, 1)) :
            scan.acc = SubSeq(full, 1, Min(scan.pages * scan.limit, Len(full)))

KeptFilters(request) == SelectSeq(request.filters, LAMBDA f : f.op \in ValidOps)

SatisfiesFilters(row, filters) ==
    \A k \in 1..Len(filters) :
        SqlCompare(filters[k].key, filters[k].op,
                   ColumnValue(row, filters[k].key), filters[k].value) = "T"

\* C10: the count query and the page query carry the same WHERE clauses and
\* the same filter parameters in the same order, the page query ends with
\* limit and (page-1)*limit, and total_results is the number of records that
\* satisfy every kept filter, whatever the page, the limit and the sort.
C10_CountAndPageAgree ==
    IsSearch =>
        /\ query.count_query.where = query.final_query.where
        /\ Len(query.count_params) = Len(query.count_query.where)
        /\ query.final_params =
               query.count_params
                 \o <<response.request.limit,
                      (response.request.page - 1) * response.request.limit>>
        /\ \A k \in 1..Len(query.count_params) :
               query.count_params[k] = KeptFilters(response.request)[k].value
        /\ response.status = "ok" =>
               /\ response.result.total_results =
                      Cardinality({k \in 1..Len(SearchRows(db)) :
                          SatisfiesFilters(SearchRows(db)[k],
                                           KeptFilters(response.request))})
               /\ Len(response.result.results) <= response.request.limit

C10_Witness ==
    /\ IsSearch
    /\ response.status = "ok"
    /\ response.request.page = 2
    /\ response.request.sort # <<>>
    /\ Len(query.count_params) = 1
    /\ response.result.total_results = 2
    /\ Len(db.ImageTiles) > 2 \/ response.request.limit = 1
    /\ Len(response.result.results) = 1

----------------------------------------------------------------------------
(* Concurrent requests: the dashboard caches, the rule files and ingestion *)

\* The JSON files of the ingestion folder, in os.listdir order.
Folder ==
    << [json_filename |-> "a.json", tiles |-> <<TilePool[1]>>],
       [json_filename |-> "b.json", tiles |-> <<TilePool[4], TilePool[2]>>] >>

\* The store after INSERT INTO SourceFiles, INSERT INTO ImageTiles ... and
\* conn.commit() for one file.
InsertFile(d, file) ==
    [d EXCEPT
       !.SourceFiles = Append(@, file.json_filename),
       !.ImageTiles = @ \o [k \in 1..Len(file.tiles) |->
                              [id |-> Num(Len(d.ImageTiles) + k),
                               source_file_id |-> Num(Len(d.SourceFiles) + 1),
                               status |-> file.tiles[k].status,
                               col |-> Num(k - 1),
                               row |-> Num(0),
                               laplacian |-> file.tiles[k].laplacian]]]

EmptyDb == [SourceFiles |-> <<>>, ImageTiles |-> <<>>, Models |-> <<>>,
            Predictions |-> <<>>]

\* Variant of Ingested that finds no file name.
IngestedNever(d, name) == FALSE

\* SELECT id FROM SourceFiles WHERE json_filename = ? returns a row.
Ingested(d, name) == \E k \in 1..Len(d.SourceFiles) : d.SourceFiles[k] = name

\* json_filename TEXT NOT NULL UNIQUE: the insert of a name that is stored
\* raises IntegrityError.
UniqueViolation(d, name) == \E k \in 1..Len(d.SourceFiles) : d.SourceFiles[k] = name

\* The rule sets a client saves.
ConfigPool ==
    { [default_color |-> "gray",
       rules |-> <<[name |-> "sharp", color |-> "red",
                    rule_group |-> [logical_op |-> "AND",
                                    conditions |-> <<Cond("laplacian", ">", Num(100))>>]]>>],
      [default_color |-> "gray",
       rules |-> <<[name |-> "all", color |-> "green",
                    rule_group |-> [logical_op |-> "AND", conditions |-> <<>>]]>>] }

allowed_columns ==
    {"laplacian", "avg_brightness", "avg_saturation", "entropy", "edge_density",
     "size", "foreground_ratio", "max_subject_area"}

MinOf(S) == CHOOSE x \in S : \A y \in S : x <= y

\* The result of get_distribution_stats over the non-NULL values of a column
\* (count and extremes; the moments and percentiles are left out).
distribution_stats(d, column_name) ==
    LET values == {k \in 1..Len(d.ImageTiles) : d.ImageTiles[k][column_name].t # "null"}
        nums == {d.ImageTiles[k][column_name].n : k \in values}
    IN  IF values = {}
        THEN [column |-> column_name, count |-> 0]
        ELSE [column |-> column_name, count |-> Cardinality(values),
              min |-> MinOf(nums), max |-> MaxOf(nums)]

\* The dictionaries the two rule endpoints cache and return.
AggregateResult(d, rules_config) ==
    [result |-> aggregate_heatmap_rules(d, rules_config), rules_config |-> rules_config]

PerImageResult(d, rules_config) ==
    [result |-> per_image_rule_report(d, rules_config), rules_config |-> rules_config]

NotFound == [status |-> "error404"]

Reply(op, key, from_cache, body) ==
    [op |-> op, status |-> "ok", key |-> key, from_cache |-> from_cache, body |-> body]

Failure(op, key, status) ==
    [op |-> op, status |-> status, key |-> key, from_cache |-> FALSE, body |-> <<>>]

Return(t, resp) ==
    /\ response' = resp
    /\ threads' = [threads EXCEPT ![t] = Idle]

Goto(t, local) ==
    /\ threads' = [threads EXCEPT ![t] = local]
    /\ UNCHANGED response

\* clear_dashboard_caches()
clear_dashboard_caches ==
    /\ distribution_cache' = [c \in StatColumns |-> NotCached]
    /\ aggregate_rules_cache' = [n \in RuleNames |-> NotCached]
    /\ per_image_rule_report_cache' = [n \in RuleNames |-> NotCached]

\* get_aggregate_heatmap_rules, step by step: cache lookup, rule file read,
\* tile query, computation and cache store.
AggregateCheck(t) ==
    \E n \in RuleNames :
        /\ threads[t] = Idle
        /\ IF aggregate_rules_cache[n] # NotCached
           THEN Return(t, Reply("get_aggregate_heatmap_rules", n, TRUE,
                                aggregate_rules_cache[n]))
           ELSE Goto(t, [op |-> "get_aggregate_heatmap_rules", pc |-> "load",
                         rule_name |-> n])
        /\ UNCHANGED <<db, saved_rules, searchVars, caches>>

AggregateLoad(t) ==
    /\ threads[t].op = "get_aggregate_heatmap_rules"
    /\ threads[t].pc = "load"
    /\ IF saved_rules[threads[t].rule_name] = NoFile
       THEN Return(t, Failure("get_aggregate_heatmap_rules", threads[t].rule_name,
                              "error404"))
       ELSE Goto(t, [op |-> "get_aggregate_heatmap_rules", pc |-> "query",
                     rule_name |-> threads[t].rule_name,
                     rules_config |-> saved_rules[threads[t].rule_name]])
    /\ UNCHANGED <<db, saved_rules, searchVars, caches>>

AggregateQuery(t) ==
    /\ threads[t].op = "get_aggregate_heatmap_rules"
    /\ threads[t].pc = "query"
    /\ Goto(t, [op |-> "get_aggregate_heatmap_rules", pc |-> "store",
                rule_name |-> threads[t].rule_name,
                rules_config |-> threads[t].rules_config,
                all_tiles |-> db])
    /\ UNCHANGED <<db, saved_rules, searchVars, caches>>

AggregateStore(t) ==
    /\ threads[t].op = "get_aggregate_heatmap_rules"
    /\ threads[t].pc = "store"
    /\ LET result == AggregateResult(threads[t].all_tiles, threads[t].rules_config)
       IN  IF result.result.status = "ok"
           THEN /\ aggregate_rules_cache' =
                       [aggregate_rules_cache EXCEPT ![threads[t].rule_name] = result]
                /\ Return(t, Reply("get_aggregate_heatmap_rules",
                                   threads[t].rule_name, FALSE, result))
           ELSE /\ UNCHANGED aggregate_rules_cache
                /\ Return(t, Failure("get_aggregate_heatmap_rules",
                                     threads[t].rule_name, "error500"))
    /\ UNCHANGED <<db, saved_rules, searchVars, distribution_cache,
                   per_image_rule_report_cache>>

\* get_per_image_rule_report, with the same steps; its queries of
\* SourceFiles and of each file's tiles are taken as one read of the store.
PerImageCheck(t) ==
    \E n \in RuleNames :
        /\ threads[t] = Idle
        /\ IF per_image_rule_report_cache[n] # NotCached
           THEN Return(t, Reply("get_per_image_rule_report", n, TRUE,
                                per_image_rule_report_cache[n]))
           ELSE Goto(t, [op |-> "get_per_image_rule_report", pc |-> "load",
                         rule_name |-> n])
        /\ UNCHANGED <<db, saved_rules, searchVars, caches>>

PerImageLoad(t) ==
    /\ threads[t].op = "get_per_image_rule_report"
    /\ threads[t].pc = "load"
    /\ IF saved_rules[threads[t].rule_name] = NoFile
       THEN Return(t, Failure("get_per_image_rule_report", threads[t].rule_name,
                              "error404"))
       ELSE Goto(t, [op |-> "get_per_image_rule_report", pc |-> "query",
                     rule_name |-> threads[t].rule_name,
                     rules_config |-> saved_rules[threads[t].rule_name]])
    /\ UNCHANGED <<db, saved_rules, searchVars, caches>>

PerImageQuery(t) ==
    /\ threads[t].op = "get_per_image_rule_report"
    /\ threads[t].pc = "query"
    /\ Goto(t, [op |-> "get_per_image_rule_report", pc |-> "store",
                rule_name |-> threads[t].rule_name,
                rules_config |-> threads[t].rules_config,
                all_tiles |-> db])
    /\ UNCHANGED <<db, saved_rules, searchVars, caches>>

PerImageStore(t) ==
    /\ threads[t].op = "get_per_image_rule_report"
    /\ threads[t].pc = "store"
    /\ LET result == PerImageResult(threads[t].all_tiles, threads[t].rules_config)
       IN  IF result.result.status = "ok"
           THEN /\ per_image_rule_report_cache' =
                       [per_image_rule_report_cache EXCEPT ![threads[t].rule_name] = result]
                /\ Return(t, Reply("get_per_image_rule_report",
                                   threads[t].rule_name, FALSE, result))
           ELSE /\ UNCHANGED per_image_rule_report_cache
                /\ Return(t, Failure("get_per_image_rule_report",
                                     threads[t].rule_name, "error500"))
    /\ UNCHANGED <<db, saved_rules, searchVars, distribution_cache,
                   aggregate_rules_cache>>

\* get_distribution_stats: column check, cache lookup, query, cache store.
DistributionCheck(t) ==
    \E column_name \in StatColumns :
        /\ threads[t] = Idle
        /\ IF column_name \notin allowed_columns
           THEN Return(t, Failure("get_distribution_stats", column_name, "error400"))
           ELSE IF distribution_cache[column_name] # NotCached
           THEN Return(t, Reply("get_distribution_stats", column_name, TRUE,
                                distribution_cache[column_name]))
           ELSE Goto(t, [op |-> "get_distribution_stats", pc |-> "query",
                         column_name |-> column_name])
        /\ UNCHANGED <<db, saved_rules, searchVars, caches>>

DistributionQuery(t) ==
    /\ threads[t].op = "get_distribution_stats"
    /\ threads[t].pc = "query"
    /\ Goto(t, [op |-> "get_distribution_stats", pc |-> "store",
                column_name |-> threads[t].column_name,
                result |-> distribution_stats(db, threads[t].column_name)])
    /\ UNCHANGED <<db, saved_rules, searchVars, caches>>

DistributionStore(t) ==
    /\ threads[t].op = "get_distribution_stats"
    /\ threads[t].pc = "store"
    /\ distribution_cache' =
           [distribution_cache EXCEPT ![threads[t].column_name] = threads[t].result]
    /\ Return(t, Reply("get_distribution_stats", threads[t].column_name, FALSE,
                       threads[t].result))
    /\ UNCHANGED <<db, saved_rules, searchVars, aggregate_rules_cache,
                   per_image_rule_report_cache>>

\* load_heatmap_rule as an endpoint: 404 for a missing file, else the
\* stored configuration.
LoadHeatmapRule(t) ==
    \E n \in RuleNames :
        /\ threads[t] = Idle
        /\ IF saved_rules[n] = NoFile
           THEN Return(t, Failure("load_heatmap_rule", n, "error404"))
           ELSE Return(t, Reply("load_heatmap_rule", n, FALSE, saved_rules[n]))
        /\ UNCHANGED <<db, saved_rules, searchVars, caches>>

\* Variant of SaveExists that goes on to write whether or not the file exists.
SaveExistsOverwrite(t) ==
    \E n \in RuleNames, rules_config \in ConfigPool :
        /\ threads[t] = Idle
        /\ Goto(t, [op |-> "save_heatmap_rules", pc |-> "write",
                    rule_name |-> n, rules_config |-> rules_config])
        /\ UNCHANGED <<db, saved_rules, searchVars, caches>>

\* save_heatmap_rules: existence check, file write, cache clear.
SaveExists(t) ==
    \E n \in RuleNames, rules_config \in ConfigPool :
        /\ threads[t] = Idle
        /\ IF saved_rules[n] # NoFile
           THEN Return(t, Failure("save_heatmap_rules", n, "error409"))
           ELSE Goto(t, [op |-> "save_heatmap_rules", pc |-> "write",
                         rule_name |-> n, rules_config |-> rules_config])
        /\ UNCHANGED <<db, saved_rules, searchVars, caches>>

SaveWrite(t) ==
    /\ threads[t].op = "save_heatmap_rules"
    /\ threads[t].pc = "write"
    /\ saved_rules' = [saved_rules EXCEPT ![threads[t].rule_name] = threads[t].rules_config]
    /\ Goto(t, [threads[t] EXCEPT !.pc = "clear"])
    /\ UNCHANGED <<db, searchVars, caches>>

SaveClear(t) ==
    /\ threads[t].op = "save_heatmap_rules"
    /\ threads[t].pc = "clear"
    /\ clear_dashboard_caches
    /\ Return(t, Reply("save_heatmap_rules", threads[t].rule_name, FALSE, "saved"))
    /\ UNCHANGED <<db, saved_rules, searchVars>>

\* delete_heatmap_rule: existence check, os.remove, cache clear.  os.remove
\* of a file another request removed meanwhile raises, and the handler
\* answers 500 without clearing.
DeleteExists(t) ==
    \E n \in RuleNames :
        /\ threads[t] = Idle
        /\ IF saved_rules[n] = NoFile
           THEN Return(t, Failure("delete_heatmap_rule", n, "error404"))
           ELSE Goto(t, [op |-> "delete_heatmap_rule", pc |-> "remove", rule_name |-> n])
        /\ UNCHANGED <<db, saved_rules, searchVars, caches>>

DeleteRemove(t) ==
    /\ threads[t].op = "delete_heatmap_rule"
    /\ threads[t].pc = "remove"
    /\ IF saved_rules[threads[t].rule_name] = NoFile
       THEN /\ Return(t, Failure("delete_heatmap_rule", threads[t].rule_name, "error500"))
            /\ UNCHANGED saved_rules
       ELSE /\ saved_rules' = [saved_rules EXCEPT ![threads[t].rule_name] = NoFile]
            /\ Goto(t, [threads[t] EXCEPT !.pc = "clear"])
    /\ UNCHANGED <<db, searchVars, caches>>

DeleteClear(t) ==
    /\ threads[t].op = "delete_heatmap_rule"
    /\ threads[t].pc = "clear"
    /\ clear_dashboard_caches
    /\ Return(t, Reply("delete_heatmap_rule", threads[t].rule_name, FALSE, "deleted"))
    /\ UNCHANGED <<db, saved_rules, searchVars>>

\* The rows a connection has inserted and not committed: a list of files,
\* each with the tiles inserted so far.
NoPending == <<>>

Pending(t) == IF "pending" \in DOMAIN threads[t] THEN threads[t].pending ELSE NoPending

\* conn.commit(): the uncommitted rows of the connection become part of the
\* store.
RECURSIVE ApplyPending(_, _)
ApplyPending(d, pending) ==
    IF pending = <<>> THEN d
    ELSE ApplyPending(InsertFile(d, Head(pending)), Tail(pending))

\* The rows inserted when an exception stops the processing of a file: the
\* SourceFiles row and the first k tiles.
Partial(file) ==
    {[json_filename |-> file.json_filename, tiles |-> SubSeq(file.tiles, 1, k)] :
        k \in 0..Len(file.tiles)}

\* SQLite admits one write transaction at a time.
LockFree(t) == \A u \in Threads \ {t} : Pending(u) = NoPending

\* start_ingestion's log_generator: between two yields it runs alone on the
\* event loop, while the threads of the other endpoints run at any time.
NextFile(local) ==
    IF local.i + 1 > Len(Folder)
    THEN [op |-> "start_ingestion", pc |-> "finish", i |-> 0, pending |-> local.pending]
    ELSE [op |-> "start_ingestion", pc |-> "check", i |-> local.i + 1,
          pending |-> local.pending]

IngestStart(t) ==
    /\ threads[t] = Idle
    /\ Goto(t, [op |-> "start_ingestion", pc |-> "check", i |-> 1, pending |-> NoPending])
    /\ UNCHANGED <<db, saved_rules, searchVars, caches>>

\* The idempotency check of one file, up to the yield that follows it.
IngestCheck(t) ==
    /\ threads[t].op = "start_ingestion"
    /\ threads[t].pc = "check"
    /\ IF Ingested(db, Folder[threads[t].i].json_filename)
       THEN Goto(t, NextFile(threads[t]))
       ELSE Goto(t, [threads[t] EXCEPT !.pc = "insert"])
    /\ UNCHANGED <<db, saved_rules, searchVars, caches>>

\* The try block of one file.  Either every row is inserted and committed, up
\* to the SUCCESS yield; or an exception (unreadable content, a value sqlite
\* cannot bind, a file name inserted meanwhile that violates UNIQUE, a locked
\* database) stops it before the first insert or after some rows, up to the
\* ERROR yield.
IngestCommit(t) ==
    /\ threads[t].op = "start_ingestion"
    /\ threads[t].pc = "insert"
    /\ LET file == Folder[threads[t].i]
           writable == ~UniqueViolation(db, file.json_filename) /\ LockFree(t)
       IN  \/ /\ writable
              /\ db' = InsertFile(ApplyPending(db, threads[t].pending), file)
              /\ Goto(t, [threads[t] EXCEPT !.pc = "success", !.pending = NoPending])
           \/ /\ \E rows \in {NoPending} \cup
                             (IF writable THEN {<<p>> : p \in Partial(file)} ELSE {}) :
                     Goto(t, [threads[t] EXCEPT !.pc = "error",
                                                !.pending = @ \o rows])
              /\ UNCHANGED db
    /\ UNCHANGED <<saved_rules, searchVars, caches>>

\* Variant of IngestRollback that goes on without conn.rollback().
IngestRollbackSkipped(t) ==
    /\ threads[t].op = "start_ingestion"
    /\ threads[t].pc = "error"
    /\ Goto(t, NextFile(threads[t]))
    /\ UNCHANGED <<db, saved_rules, searchVars, caches>>

\* Resumed after the ERROR yield: conn.rollback(), then the next file.
IngestRollback(t) ==
    /\ threads[t].op = "start_ingestion"
    /\ threads[t].pc = "error"
    /\ Goto(t, NextFile([threads[t] EXCEPT !.pending = NoPending]))
    /\ UNCHANGED <<db, saved_rules, searchVars, caches>>

\* Resumed after the SUCCESS yield: clear_dashboard_caches().
IngestClear(t) ==
    /\ threads[t].op = "start_ingestion"
    /\ threads[t].pc = "success"
    /\ clear_dashboard_caches
    /\ Goto(t, NextFile(threads[t]))
    /\ UNCHANGED <<db, saved_rules, searchVars>>

\* After the loop: conn.close(), up to the last yield.
IngestFinish(t) ==
    /\ threads[t].op = "start_ingestion"
    /\ threads[t].pc = "finish"
    /\ Goto(t, [threads[t] EXCEPT !.pc = "complete", !.pending = NoPending])
    /\ UNCHANGED <<db, saved_rules, searchVars, caches>>

\* Resumed after the last yield: clear_dashboard_caches(), end of the stream.
IngestComplete(t) ==
    /\ threads[t].op = "start_ingestion"
    /\ threads[t].pc = "complete"
    /\ clear_dashboard_caches
    /\ Return(t, Reply("start_ingestion", "folder", FALSE, "complete"))
    /\ UNCHANGED <<db, saved_rules, searchVars>>

\* The client stops reading: the generator is closed where it is suspended.
\* The exception raised at the yield derives from BaseException, no handler
\* of the generator catches it and no code after the yield runs; the
\* connection is dropped with its uncommitted rows.
IngestClose(t) ==
    /\ threads[t].op = "start_ingestion"
    /\ Return(t, Failure("start_ingestion", "folder", "closed"))
    /\ UNCHANGED <<db, saved_rules, searchVars, caches>>

\* scripts/ingestion_script.py, a process of its own with one connection.
NextScriptFile(local) ==
    IF local.i + 1 > Len(Folder)
    THEN [op |-> "ingestion_script", pc |-> "close", i |-> 0, pending |-> NoPending]
    ELSE [op |-> "ingestion_script", pc |-> "process", i |-> local.i + 1,
          pending |-> NoPending]

ScriptStart(t) ==
    /\ threads[t] = Idle
    /\ Goto(t, [op |-> "ingestion_script", pc |-> "process", i |-> 1,
                pending |-> NoPending])
    /\ UNCHANGED <<db, saved_rules, searchVars, caches>>

\* process_single_json up to its commit: the file is skipped when it is
\* already ingested or cannot be decoded; otherwise its rows are inserted,
\* all of them or, when an exception is raised, the first of them.
ProcessSingleJson(t) ==
    /\ threads[t].op = "ingestion_script"
    /\ threads[t].pc = "process"
    /\ LET file == Folder[threads[t].i]
       IN  IF Ingested(db, file.json_filename)
           THEN Goto(t, NextScriptFile(threads[t]))
           ELSE \/ Goto(t, NextScriptFile(threads[t]))
                \/ /\ LockFree(t)
                   /\ Goto(t, [threads[t] EXCEPT !.pc = "commit", !.pending = <<file>>])
                \/ \E rows \in {NoPending} \cup
                               (IF LockFree(t) THEN {<<p>> : p \in Partial(file)} ELSE {}) :
                       Goto(t, [threads[t] EXCEPT !.pc = "raise", !.pending = rows])
    /\ UNCHANGED <<db, saved_rules, searchVars, caches>>

\* db_connection.commit() at the end of process_single_json; a file name
\* committed meanwhile by another connection violates UNIQUE.
ScriptCommit(t) ==
    /\ threads[t].op = "ingestion_script"
    /\ threads[t].pc = "commit"
    /\ IF UniqueViolation(db, Folder[threads[t].i].json_filename)
       THEN /\ Goto(t, [threads[t] EXCEPT !.pc = "raise"])
            /\ UNCHANGED db
       ELSE /\ db' = ApplyPending(db, threads[t].pending)
            /\ Goto(t, NextScriptFile(threads[t]))
    /\ UNCHANGED <<saved_rules, searchVars, caches>>

\* main: the exception leaves the loop and conn.close() in the finally
\* clause drops the uncommitted rows; or the loop ends and the connection
\* is closed.
ScriptClose(t) ==
    /\ threads[t].op = "ingestion_script"
    /\ threads[t].pc \in {"raise", "close"}
    /\ Return(t, IF threads[t].pc = "raise"
                 THEN Failure("ingestion_script", "folder", "error")
                 ELSE Reply("ingestion_script", "folder", FALSE, "closed"))
    /\ UNCHANGED <<db, saved_rules, searchVars, caches>>

\* generate_report_data run by a reporting script on its own connection, in
\* autocommit mode: the grouped query and the totals query are two
\* statements, each reading the store as committed when it runs.
ReportOver(results_db, totals_db, config) ==
    [f \in DOMAIN total_counts(totals_db) |->
        LET counted == [l \in Labels(config.rules) |->
                           GroupCount(results_db, config.rules, f, l)]
        IN  [total_tiles |-> total_counts(totals_db)[f],
             counts |-> [counted EXCEPT !["default"] =
                            DefaultCount(total_counts(totals_db)[f], counted)]]]

ReportExecuteQuery(t) ==
    \E rules_config \in ConfigPool :
        /\ threads[t] = Idle
        /\ IF QueryFails(db, rules_config.rules)
           THEN Return(t, Failure("generate_report_data", rules_config, "error"))
           ELSE Goto(t, [op |-> "generate_report_data", pc |-> "total_counts",
                         rules_config |-> rules_config, results |-> db])
        /\ UNCHANGED <<db, saved_rules, searchVars, caches>>

ReportTotalCounts(t) ==
    /\ threads[t].op = "generate_report_data"
    /\ threads[t].pc = "total_counts"
    /\ Return(t, Reply("generate_report_data", threads[t].rules_config, FALSE,
                       ReportOver(threads[t].results, db, threads[t].rules_config)))
    /\ UNCHANGED <<db, saved_rules, searchVars, caches>>

CacheInit ==
    /\ db = InsertFile(EmptyDb, Folder[1])
    /\ saved_rules \in [RuleNames -> ConfigPool \cup {NoFile}]
    /\ response = NoResponse
    /\ query = NoQuery
    /\ scan = NoScan
    /\ ColdStart

CacheNext ==
    \E t \in Threads :
        \/ AggregateCheck(t)
        \/ AggregateLoad(t)
        \/ AggregateQuery(t)
        \/ AggregateStore(t)
        \/ PerImageCheck(t)
        \/ PerImageLoad(t)
        \/ PerImageQuery(t)
        \/ PerImageStore(t)
        \/ DistributionCheck(t)
        \/ DistributionQuery(t)
        \/ DistributionStore(t)
        \/ SaveExists(t)
        \/ SaveWrite(t)
        \/ SaveClear(t)
        \/ DeleteExists(t)
        \/ DeleteRemove(t)
        \/ DeleteClear(t)
        \/ IngestStart(t)
        \/ IngestCheck(t)
        \/ IngestCommit(t)
        \/ IngestRollback(t)
        \/ IngestClear(t)
        \/ IngestFinish(t)
        \/ IngestComplete(t)
        \/ IngestClose(t)
        \/ LoadHeatmapRule(t)
        \/ ReportExecuteQuery(t)
        \/ ReportTotalCounts(t)

CacheSpec == CacheInit /\ [][CacheNext]_vars

\* Ingestion through the API and through the script, into a store that is
\* empty or holds the first file of the folder, next to a dashboard request
\* that fills a cache.
IngestInit ==
    /\ db \in {EmptyDb, InsertFile(EmptyDb, Folder[1])}
    /\ saved_rules = [n \in RuleNames |-> NoFile]
    /\ response = NoResponse
    /\ query = NoQuery
    /\ scan = NoScan
    /\ ColdStart

IngestNext ==
    \E t \in Threads :
        \/ IngestStart(t)
        \/ IngestCheck(t)
        \/ IngestCommit(t)
        \/ IngestRollback(t)
        \/ IngestClear(t)
        \/ IngestFinish(t)
        \/ IngestComplete(t)
        \/ IngestClose(t)
        \/ ScriptStart(t)
        \/ ProcessSingleJson(t)
        \/ ScriptCommit(t)
        \/ ScriptClose(t)
        \/ DistributionCheck(t)
        \/ DistributionQuery(t)
        \/ DistributionStore(t)

IngestSpec == IngestInit /\ [][IngestNext]_vars

----------------------------------------------------------------------------
(* Properties of the caches                                                *)

WriterOps == {"save_heatmap_rules", "delete_heatmap_rule", "start_ingestion"}

NoWriterRunning == \A t \in Threads : threads[t].op \notin WriterOps

\* What the endpoint computes from the rule files and the store as they are.
Fresh(op, key) ==
    IF op = "get_distribution_stats" THEN distribution_stats(db, key)
    ELSE IF saved_rules[key] = NoFile THEN NotFound
    ELSE IF op = "get_aggregate_heatmap_rules"
    THEN AggregateResult(db, saved_rules[key])
    ELSE PerImageResult(db, saved_rules[key])

ServedFromCache ==
    /\ response' # response
    /\ response'.op \in {"get_aggregate_heatmap_rules", "get_per_image_rule_report",
                         "get_distribution_stats"}
    /\ response'.status = "ok"
    /\ response'.from_cache

\* C5: no stale cache after mutation.  A request served from a cache while
\* no rule save, rule delete or ingestion is running (every mutation so far
\* has completed, cache clearing included) receives what the endpoint would
\* compute from the current rule set and the current record set.
C5_NoStaleCache ==
    [][ServedFromCache /\ NoWriterRunning
          => response'.body = Fresh(response'.op, response'.key)]_vars

----------------------------------------------------------------------------
(* Properties of the compiled engine's query                               *)

IsReport == response.op = "generate_report_data"

OnlyModelConditions(rule) ==
    /\ rule.rule_group.conditions # <<>>
    /\ \A k \in 1..Len(rule.rule_group.conditions) :
           rule.rule_group.conditions[k].key \in ModelKeys

\* C11: with no model registered, generate_report_data returns a report, its
\* CASE statement names no P column, and a rule made only of model_score /
\* model_classification conditions counts no tile.
C11_NoModelFailSoft ==
    (IsReport /\ db.Models = <<>>) =>
        /\ response.status = "ok"
        /\ \A c \in 1..Len(response.query.when_clauses) :
               \A k \in 1..Len(response.query.when_clauses[c].conds) :
                   response.query.when_clauses[c].conds[k].key \notin ModelKeys
        /\ \A f \in DOMAIN response.report :
               \A i \in 1..Len(TheConfig.rules) :
                   OnlyModelConditions(TheConfig.rules[i])
                       => response.report[f].counts[LabelOf(i - 1)] = 0

ReferencesModel(config) ==
    \E i \in 1..Len(config.rules) :
        \E k \in 1..Len(config.rules[i].rule_group.conditions) :
            config.rules[i].rule_group.conditions[k].key
                \in {"model_score", "model_classification"}

\* C12: lazy join.  The report query joins Predictions and Models only if a
\* rule condition references model_score or model_classification; otherwise
\* its FROM clause is ImageTiles joined to SourceFiles and it binds no
\* parameter.
C12_LazyJoin ==
    IsReport =>
        /\ Len(response.query.from_clause) > 2 => ReferencesModel(TheConfig)
        /\ ~ReferencesModel(TheConfig) =>
               /\ response.query.from_clause = <<"ImageTiles T", "SourceFiles S">>
               /\ response.query.params = <<>>
        /\ Len(response.query.params) = (IF Len(response.query.from_clause) > 2 THEN 1 ELSE 0)

C12_Witness ==
    /\ IsReport
    /\ db.Models # <<>>
    /\ db.ImageTiles # <<>>
    /\ TheConfig.rules # <<>>
    /\ ~ReferencesModel(TheConfig)
    /\ response.status = "ok"
    /\ response.query.from_clause = <<"ImageTiles T", "SourceFiles S">>

----------------------------------------------------------------------------
(* Properties of the in-memory evaluator                                   *)

MemoryOps ==
    {"generate_heatmap", "get_aggregate_heatmap_rules", "get_per_image_rule_report"}

IsMemory == response.op \in MemoryOps

Tiles == {db.ImageTiles[k] : k \in 1..Len(db.ImageTiles)}

Groups == {TheConfig.rules[i].rule_group : i \in 1..Len(TheConfig.rules)}

\* C13: type-coercion fail-soft.  No condition of the rule set raises on a
\* tile of the store, whatever the types of the two values, and the three
\* in-memory endpoints answer.
C13_TypeCoercionFailSoft ==
    IsMemory =>
        /\ response.status = "ok"
        /\ \A tile \in Tiles : \A g \in Groups :
               /\ \A k \in 1..Len(g.conditions) : CondResult(tile, g.conditions[k]) # "ERR"
               /\ evaluate_rule_group(tile, g) # "ERR"

ProbeKeys == TileColumns \cup {"nonexistent_field"}

ProbeOps == ValidOps \cup {"LIKE"}

ProbeValues == {Num(5), Num(100), Str("ok"), Str("5")}

Missing(tile, key) == key \notin DOMAIN tile \/ tile[key] = Null

\* C14: fail-soft predicate.  On every tile of the store a condition on a
\* field the tile lacks, or holds as null, is false for every operator and
\* value; an AND group of the rule set that contains such a condition does
\* not match the tile, and an OR group matches it only through another
\* condition.
C14_AbsentOrNullFalse ==
    IsMemory =>
        \A tile \in Tiles :
            /\ \A key \in ProbeKeys, op \in ProbeOps, value \in ProbeValues :
                   Missing(tile, key) => CondResult(tile, Cond(key, op, value)) = "F"
            /\ \A g \in Groups :
                   \A k \in 1..Len(g.conditions) :
                       Missing(tile, g.conditions[k].key) =>
                           /\ CondResult(tile, g.conditions[k]) = "F"
                           /\ Upper(g.logical_op) = "AND"
                                  => evaluate_rule_group(tile, g) # "T"
                           /\ evaluate_rule_group(tile, g) = "T" =>
                                  \E j \in 1..Len(g.conditions) :
                                      /\ j # k
                                      /\ CondResult(tile, g.conditions[j]) = "T"

C14_Witness ==
    /\ response.op = "get_aggregate_heatmap_rules"
    /\ response.status = "ok"
    /\ \E tile \in Tiles : \E g \in Groups :
           /\ Upper(g.logical_op) = "OR"
           /\ \E k \in 1..Len(g.conditions) : Missing(tile, g.conditions[k].key)
           /\ evaluate_rule_group(tile, g) = "T"
    /\ \E tile \in Tiles : \E g \in Groups :
           /\ Upper(g.logical_op) = "AND"
           /\ \E k \in 1..Len(g.conditions) : g.conditions[k].key \notin DOMAIN tile
           /\ evaluate_rule_group(tile, g) = "F"

----------------------------------------------------------------------------
(* Rule groups by logical_op and by number of conditions                   *)

LogicalOps == {"AND", "and", "OR", "Or", "xor"}

ConditionLists ==
    { <<>>,
      <<Cond("laplacian", ">", Num(100))>>,
      <<Cond("status", "==", Str("ok")), Cond("laplacian", ">=", Num(100))>> }

LogicRulePool ==
    {[name |-> "", color |-> "red",
      rule_group |-> [logical_op |-> o, conditions |-> cs]] :
        o \in LogicalOps, cs \in ConditionLists}

\* Rule sets of one rule and of two rules.
LogicRuleSets ==
    {[default_color |-> "gray", rules |-> rs] :
        rs \in [1..1 -> LogicRulePool] \cup [1..2 -> LogicRulePool]}

LogicInit ==
    /\ db \in {MakeDb(idxs, <<>>) : idxs \in TileChoices}
    /\ \E config \in LogicRuleSets : saved_rules = [n \in RuleNames |-> config]
    /\ response = NoResponse
    /\ query = NoQuery
    /\ scan = NoScan
    /\ ColdStart

LogicSpec == LogicInit /\ [][Next]_vars

AndSpellings == {"AND", "and"}

OrSpellings == {"OR", "Or"}

Holds(tile, cond) == CondResult(tile, cond) = "T"

\* What a group is to give on a tile: all conditions under AND, some
\* condition under OR, nothing under any other logical_op.
Expected(tile, g) ==
    IF g.logical_op \in AndSpellings
    THEN \A k \in 1..Len(g.conditions) : Holds(tile, g.conditions[k])
    ELSE IF g.logical_op \in OrSpellings
    THEN \E k \in 1..Len(g.conditions) : Holds(tile, g.conditions[k])
    ELSE FALSE

Unrecognised(rule) == rule.rule_group.logical_op \notin AndSpellings \cup OrSpellings

\* C15: logical_op is read case-insensitively as AND or OR and any other
\* value never matches: in memory every group gives Expected on every tile,
\* and in the compiled report every WHEN branch joins its conditions with
\* the operator the group names and a rule with an unrecognised logical_op
\* counts no tile.
C15_LogicalOp ==
    /\ IsMemory =>
          \A tile \in Tiles : \A g \in Groups :
              (evaluate_rule_group(tile, g) = "T") = Expected(tile, g)
    /\ (IsReport /\ response.status = "ok") =>
          /\ \A i \in 1..Len(TheConfig.rules) :
                \A c \in 1..Len(response.query.when_clauses) :
                    response.query.when_clauses[c].label = LabelOf(i - 1) =>
                        LET o == TheConfig.rules[i].rule_group.logical_op
                        IN  /\ o \in AndSpellings
                                => response.query.when_clauses[c].joiner = "AND"
                            /\ o \in OrSpellings
                                => response.query.when_clauses[c].joiner = "OR"
          /\ \A f \in DOMAIN response.report :
                \A i \in 1..Len(TheConfig.rules) :
                    Unrecognised(TheConfig.rules[i])
                        => response.report[f].counts[LabelOf(i - 1)] = 0

EmptyGroup(rule, spellings) ==
    /\ rule.rule_group.conditions = <<>>
    /\ rule.rule_group.logical_op \in spellings

\* The per-group count dictionaries of an in-memory response.
MemoryCounts ==
    IF response.status # "ok" THEN {}
    ELSE IF response.op = "get_per_image_rule_report"
    THEN {response.report_data[f].counts : f \in DOMAIN response.report_data} \ {<<>>}
    ELSE {response.rule_match_counts} \ {<<>>}

\* C16: vacuous groups.  A group without conditions matches every tile under
\* AND and no tile under OR; in the in-memory counts an empty-AND rule at
\* index i leaves nothing to the rules after it nor to default, and an
\* empty-OR rule counts nothing.
C16_VacuousGroups ==
    IsMemory =>
        /\ \A tile \in Tiles : \A i \in 1..Len(TheConfig.rules) :
               /\ EmptyGroup(TheConfig.rules[i], AndSpellings)
                      => evaluate_rule_group(tile, TheConfig.rules[i].rule_group) = "T"
               /\ EmptyGroup(TheConfig.rules[i], OrSpellings)
                      => evaluate_rule_group(tile, TheConfig.rules[i].rule_group) = "F"
        /\ \A counts \in MemoryCounts : \A i \in 1..Len(TheConfig.rules) :
               /\ EmptyGroup(TheConfig.rules[i], AndSpellings) =>
                      /\ counts["default"] = 0
                      /\ \A j \in (i + 1)..Len(TheConfig.rules) : counts[LabelOf(j - 1)] = 0
               /\ EmptyGroup(TheConfig.rules[i], OrSpellings) => counts[LabelOf(i - 1)] = 0

C16_Witness ==
    /\ response.op = "get_aggregate_heatmap_rules"
    /\ response.status = "ok"
    /\ Len(TheConfig.rules) = 2
    /\ EmptyGroup(TheConfig.rules[1], OrSpellings)
    /\ EmptyGroup(TheConfig.rules[2], AndSpellings)
    /\ response.total_tiles_evaluated = 2
    /\ response.rule_match_counts["0"] = 0
    /\ response.rule_match_counts["1"] = 2

----------------------------------------------------------------------------
(* Rule sets without a valid condition                                     *)

ReportColumns ==
    {"status", "col", "row", "size", "laplacian", "avg_brightness",
     "avg_saturation", "entropy", "edge_density", "edge_density_3060",
     "foreground_ratio", "max_subject_area", "model_score", "model_classification"}

NoValidCondition(rule) ==
    \A k \in 1..Len(rule.rule_group.conditions) :
        \/ rule.rule_group.conditions[k].key \notin ReportColumns
        \/ rule.rule_group.conditions[k].op \notin {">", "<", ">=", "<=", "==", "!="}

\* C17: when no rule of the rule set has a valid condition, the compiled
\* report does not fail and gives, for every file that has tiles, 0 for
\* every rule and default = total_tiles = the number of tiles of the file.
C17_AllInvalidIsDefault ==
    (IsReport /\ \A i \in 1..Len(TheConfig.rules) : NoValidCondition(TheConfig.rules[i])) =>
        /\ response.status = "ok"
        /\ \A f \in FileIds(db) :
               TilesOfFile(db, f) # <<>> =>
                   /\ f \in DOMAIN response.report
                   /\ response.report[f].total_tiles = Len(TilesOfFile(db, f))
                   /\ response.report[f].counts["default"] = Len(TilesOfFile(db, f))
                   /\ \A i \in 1..Len(TheConfig.rules) :
                          response.report[f].counts[LabelOf(i - 1)] = 0

C17_Witness ==
    /\ IsReport
    /\ Len(TheConfig.rules) = 2
    /\ \A i \in 1..2 : NoValidCondition(TheConfig.rules[i])
    /\ \E i \in 1..2 : TheConfig.rules[i].rule_group.conditions # <<>>
    /\ db.Models # <<>>
    /\ DOMAIN response.report = {1, 2}
    /\ response.report[1].counts["default"] = 1
    /\ response.report[2].counts["default"] = 1

----------------------------------------------------------------------------
(* Properties of the compiled report under concurrent ingestion            *)

\* The stores the ingestion of the folder passes through.
Snapshots ==
    {InsertFile(EmptyDb, Folder[1]),
     InsertFile(InsertFile(EmptyDb, Folder[1]), Folder[2])}

\* C18: a result of generate_report_data is the report of one snapshot of
\* the store: counts and total_tiles of every file come from the same
\* committed state.
C18_ReportAtomic ==
    (response.op = "generate_report_data" /\ response.status = "ok") =>
        \E d \in Snapshots :
            response.body = generate_report_data(d, response.key).report

----------------------------------------------------------------------------
(* Properties of the rule files                                            *)

\* The step answers a request of the operation.
NewResponse(op) ==
    /\ response'.op = op
    /\ response.op = op => response' # response

\* C19: create or conflict.  A save of a name that exists when the request
\* looks it up answers 409 and changes neither the rule files nor the
\* caches; a save goes on only for a name that does not exist, its write
\* stores exactly the configuration of the request, and a load answers with
\* the configuration stored under the name.
C19_CreateOrConflict ==
    [][/\ \A t \in Threads :
              /\ (threads[t] = Idle /\ threads'[t].op = "save_heatmap_rules")
                     => saved_rules[threads'[t].rule_name] = NoFile
              /\ (/\ threads[t].op = "save_heatmap_rules"
                  /\ threads[t].pc = "write"
                  /\ threads'[t] # threads[t])
                     => saved_rules' = [saved_rules EXCEPT ![threads[t].rule_name] =
                                                              threads[t].rules_config]
       /\ (NewResponse("save_heatmap_rules") /\ response'.status = "error409")
              => /\ saved_rules[response'.key] # NoFile
                 /\ saved_rules' = saved_rules
                 /\ caches' = caches
       /\ NewResponse("load_heatmap_rule")
              => IF saved_rules[response'.key] = NoFile
                 THEN response'.status = "error404"
                 ELSE response'.status = "ok" /\ response'.body = saved_rules[response'.key]
      ]_vars

C19_Witness ==
    /\ response.op = "save_heatmap_rules"
    /\ response.status = "error409"
    /\ saved_rules[response.key] \in ConfigPool
    /\ aggregate_rules_cache[response.key] # NotCached

RuleReaders == {"get_aggregate_heatmap_rules", "get_per_image_rule_report"}

\* A request that starts and is answered in this step.
AnsweredAtOnce(op) ==
    /\ NewResponse(op)
    /\ threads' = threads

\* C20: not found.  A load or delete of a name that has no rule file answers
\* 404 and changes no rule file; a report endpoint that finds no rule file
\* answers 404 and stores nothing in the caches; and while a name has no
\* rule file and no save, delete or ingestion is running, every load or
\* report asked for that name answers 404.
C20_NotFound ==
    [][/\ (NewResponse("load_heatmap_rule") /\ saved_rules[response'.key] = NoFile)
              => response'.status = "error404" /\ saved_rules' = saved_rules
       /\ (NewResponse("delete_heatmap_rule") /\ response'.status = "error404")
              => /\ saved_rules[response'.key] = NoFile
                 /\ saved_rules' = saved_rules
                 /\ caches' = caches
       /\ \A t \in Threads :
              (/\ threads[t].op \in RuleReaders
               /\ threads[t].pc = "load"
               /\ threads'[t] # threads[t]
               /\ saved_rules[threads[t].rule_name] = NoFile)
                  => /\ response'.op = threads[t].op
                     /\ response'.status = "error404"
                     /\ caches' = caches
       /\ \A op \in RuleReaders \cup {"load_heatmap_rule"} :
              (/\ AnsweredAtOnce(op)
               /\ NoWriterRunning
               /\ saved_rules[response'.key] = NoFile)
                  => response'.status = "error404"
      ]_vars

----------------------------------------------------------------------------
(* Properties of the reports' percentages and columns                      *)

IsPerImage == response.op = "get_per_image_rule_report" /\ response.status = "ok"

IsWide ==
    /\ response.op = "create_report"
    /\ response.status = "ok"
    /\ response.format = "wide"

\* The percentage p is count / total * 100, and 0 for a total of 0.
IsPercentageOf(p, count, total) ==
    /\ DOMAIN p = {"num", "den"}
    /\ IF total = 0 THEN p.num = 0
       ELSE p.num * total = count * 100 * p.den

\* The hundredths h are count / total * 100 to the two decimals of the CSV
\* file, and 0 for a total of 0.
IsRoundedPercentageOf(h, count, total) ==
    IF total = 0 THEN h = 0
    ELSE /\ 2 * (h * total - count * 10000) <= total
         /\ 2 * (count * 10000 - h * total) <= total

\* C21: aggregator percentages.  The per-image report gives, for every file
\* and for default and every rule index, the percentage count / total * 100,
\* and the percentage 0 for a file with no tiles; the wide format of
\* create_report gives the same for every column, to two decimals.
C21_Percentages ==
    /\ IsPerImage =>
          \A f \in FileIds(db) : \A l \in Labels(TheConfig.rules) :
              LET file == response.report_data[f]
              IN  /\ l \in DOMAIN file.rule_match_details
                  /\ IsPercentageOf(file.rule_match_details[l].percentage,
                                    file.rule_match_details[l].count,
                                    file.total_tiles_evaluated_for_file)
    /\ IsWide =>
          \A f \in DOMAIN response.rows : \A name \in DOMAIN response.rows[f].columns :
              IsRoundedPercentageOf(response.rows[f].columns[name].percentage,
                                    response.rows[f].columns[name].count,
                                    response.rows[f].total_tiles)

----------------------------------------------------------------------------
(* Properties of the in-memory counts on empty inputs                      *)

\* The tiles the in-memory request of the response has classified.
Classified ==
    IF response.op = "generate_heatmap" THEN TilesOfFile(db, response.file)
    ELSE db.ImageTiles

\* C22: scenario B and empty inputs.  An in-memory classification with an
\* empty rule list over N tiles answers rule_match_counts = {default: N},
\* and over no tiles it answers a count of 0 for default and for every rule
\* index.
C22_EmptyInputs ==
    (IsMemory /\ response.op # "get_per_image_rule_report" /\ response.status = "ok") =>
        /\ TheConfig.rules = <<>> =>
               response.rule_match_counts = ("default" :> Len(Classified))
        /\ Classified = <<>> =>
               \A l \in Labels(TheConfig.rules) :
                   /\ l \in DOMAIN response.rule_match_counts
                   /\ response.rule_match_counts[l] = 0

----------------------------------------------------------------------------
(* Properties of the sort order of a search                                *)

\* The ids of S in ascending order.
Ascending(S) ==
    CHOOSE p \in Perms(S) : \A i, j \in 1..Len(p) : i < j => p[i] < p[j]

\* The ids of the rows that satisfy the recognised filters of the request.
Selected(request) ==
    {k \in 1..Len(SearchRows(db)) :
        SatisfiesFilters(SearchRows(db)[k], KeptFilters(request))}

NoDirection(s) == s.order \notin {"asc", "ASC", "desc", "DESC", "Desc"}

\* C23: a search with an empty sort list orders by T.id ascending, so its
\* page is the page of the selected ids in ascending order, the same for
\* every identical request; a sort entry whose order is neither asc nor desc
\* is written as ASC and the rows come in ascending order of its column.
C23_DefaultSort ==
    IsSearch =>
        LET request == response.request
            results == response.result.results
        IN  /\ request.sort = <<>> =>
                  /\ query.final_query.order_by
                        = <<[prefix |-> "T", key |-> "id", order |-> "ASC"]>>
                  /\ response.status = "ok" =>
                        results = SubSeq(Ascending(Selected(request)),
                                         (request.page - 1) * request.limit + 1,
                                         Min(request.page * request.limit,
                                             Cardinality(Selected(request))))
            /\ \A k \in 1..Len(request.sort) :
                  NoDirection(request.sort[k]) =>
                      query.final_query.order_by[k].order = "ASC"
            /\ (/\ request.sort # <<>>
                /\ NoDirection(request.sort[1])
                /\ response.status = "ok") =>
                  \A i, j \in 1..Len(results) :
                      i < j => ValueCmp(ColumnValue(SearchRows(db)[results[i]],
                                                    request.sort[1].key),
                                        ColumnValue(SearchRows(db)[results[j]],
                                                    request.sort[1].key)) <= 0

C23_Witness ==
    /\ IsSearch
    /\ response.status = "ok"
    /\ response.request.sort = <<>>
    /\ response.request.filters = <<>>
    /\ response.request.page = 1
    /\ Len(response.result.results) = 2

----------------------------------------------------------------------------
(* Condition values of every kind: numbers, strings with and without quote *)
(* characters, and null.                                                   *)

LiteralValues == {Num(100), Str("ok"), Str("ok' OR '1'='1"), Str("it's"), Null}

LiteralRulePool ==
    {[name |-> "", color |-> "red",
      rule_group |-> [logical_op |-> "AND", conditions |-> <<Cond(c[1], c[2], v)>>]] :
        c \in {<<"status", "==">>, <<"laplacian", ">">>}, v \in LiteralValues}

\* Rule sets of one rule and of two rules.
LiteralRuleSets ==
    {[default_color |-> "gray", rules |-> rs] :
        rs \in [1..1 -> LiteralRulePool] \cup [1..2 -> LiteralRulePool]}

LiteralInit ==
    /\ db \in {MakeDb(idxs, <<>>) : idxs \in TileChoices}
    /\ \E config \in LiteralRuleSets : saved_rules = [n \in RuleNames |-> config]
    /\ response = NoResponse
    /\ query = NoQuery
    /\ scan = NoScan
    /\ ColdStart

LiteralSpec == LiteralInit /\ [][Next]_vars

\* The one typed literal of a value: numeric for a number, quoted for a
\* string.
TypedLiteral(value) ==
    [kind |-> IF value.t = "num" THEN "numeric" ELSE "string",
     literal |-> value, rest |-> <<>>]

\* C24: typed literals.  In the query of generate_report_data there is one
\* WHEN branch per rule that keeps a condition, and every condition of a
\* branch carries a number or a string as exactly one literal of its type,
\* with no SQL after it: the content of a value adds nothing to the branch.
C24_TypedLiterals ==
    IsReport =>
        LET clauses == response.query.when_clauses
        IN  /\ Len(clauses) = Cardinality({i \in 1..Len(TheConfig.rules) :
                                              KeptConditions(TheConfig.rules[i]) # <<>>})
            /\ \A c \in 1..Len(clauses) : \A k \in 1..Len(clauses[c].conds) :
                  /\ clauses[c].conds[k].value.t \in {"num", "str"}
                  /\ clauses[c].literals[k] = TypedLiteral(clauses[c].conds[k].value)

----------------------------------------------------------------------------
(* Scenario A: one rule on laplacian, every operator, over the records     *)
(* with laplacian 50, 150 and 100.                                         *)

\* The tiles of the scenario, by their place in TilePool.
ScenarioA == <<1, 2, 3>>

OperatorStores ==
    {MakeDb(idxs, <<>>) :
        idxs \in {s \in SeqsUpTo(1..Len(ScenarioA), Len(ScenarioA)) :
                     \A j \in 1..(Len(s) - 1) : s[j] < s[j + 1]}}

OperatorRuleSets ==
    {[default_color |-> "gray",
      rules |-> <<[name |-> "sharp", color |-> "red",
                   rule_group |-> [logical_op |-> "AND",
                                   conditions |-> <<Cond("laplacian", o, Num(v))>>]]>>] :
        o \in ValidOps, v \in {50, 100, 150}}

OperatorInit ==
    /\ db \in OperatorStores
    /\ \E config \in OperatorRuleSets : saved_rules = [n \in RuleNames |-> config]
    /\ response = NoResponse
    /\ query = NoQuery
    /\ scan = NoScan
    /\ ColdStart

OperatorSpec == OperatorInit /\ [][Next]_vars

\* The standard meaning of the six operators on numbers.
Standard(op, a, b) ==
    CASE op = ">" -> a > b
      [] op = "<" -> a < b
      [] op = ">=" -> a >= b
      [] op = "<=" -> a <= b
      [] op = "==" -> a = b
      [] op = "!=" -> a # b

TheCondition == TheConfig.rules[1].rule_group.conditions[1]

\* C25: operator semantics.  An in-memory classification by one rule on a
\* numeric field counts under rule 0 exactly the tiles whose value stands in
\* the operator's standard relation to the rule value, and the others under
\* default: a tile whose value equals the rule value matches >=, <= and ==
\* only, and laplacian > 100 over 50, 150, 100 gives {0: 1, default: 2}.
C25_OperatorSemantics ==
    (/\ IsMemory
     /\ response.op # "get_per_image_rule_report"
     /\ Classified # <<>>) =>
        /\ response.status = "ok"
        /\ response.rule_match_counts["0"]
              = Cardinality({k \in 1..Len(Classified) :
                                Standard(TheCondition.op, Classified[k].laplacian.n,
                                         TheCondition.value.n)})
        /\ response.rule_match_counts["default"]
              = Cardinality({k \in 1..Len(Classified) :
                                ~Standard(TheCondition.op, Classified[k].laplacian.n,
                                          TheCondition.value.n)})
        /\ (TheCondition.op = ">" /\ TheCondition.value = Num(100)
                /\ db = MakeDb(ScenarioA, <<>>)) =>
               response.rule_match_counts = [l \in {"0", "default"} |->
                                                IF l = "0" THEN 1 ELSE 2]

C25_Witness ==
    /\ IsMemory
    /\ response.op = "generate_heatmap"
    /\ response.status = "ok"
    /\ db = MakeDb(ScenarioA, <<>>)
    /\ TheCondition.op = ">"
    /\ TheCondition.value = Num(100)
    /\ response.rule_match_counts["0"] = 1
    /\ response.rule_match_counts["default"] = 2

----------------------------------------------------------------------------
(* Properties of ingestion                                                 *)

IngestOps == {"start_ingestion", "ingestion_script"}

\* The file name has a row in SourceFiles.
Recorded(d, name) == \E k \in 1..Len(d.SourceFiles) : d.SourceFiles[k] = name

\* The rows of d are rows of e, unaltered.
RowsKept(d, e) ==
    /\ Len(d.SourceFiles) <= Len(e.SourceFiles)
    /\ Len(d.ImageTiles) <= Len(e.ImageTiles)
    /\ SubSeq(e.SourceFiles, 1, Len(d.SourceFiles)) = d.SourceFiles
    /\ SubSeq(e.ImageTiles, 1, Len(d.ImageTiles)) = d.ImageTiles

\* The rows e has and d has not belong to files that d has not.
OnlyNewFiles(d, e) ==
    /\ \A k \in (Len(d.SourceFiles) + 1)..Len(e.SourceFiles) :
           ~Recorded(d, e.SourceFiles[k])
    /\ \A k \in (Len(d.ImageTiles) + 1)..Len(e.ImageTiles) :
           e.ImageTiles[k].source_file_id.n > Len(d.SourceFiles)

\* C26: ingestion is idempotent per file name.  A run that comes to a file
\* whose name is recorded in SourceFiles skips it; no step adds a SourceFiles
\* row for a recorded name, a tile row for a recorded file, or alters a
\* stored row; and once every file of the folder is recorded a run leaves
\* the store as it is.
C26_Idempotent ==
    [][/\ RowsKept(db, db')
       /\ OnlyNewFiles(db, db')
       /\ (\A k \in 1..Len(Folder) : Recorded(db, Folder[k].json_filename)) => db' = db
       /\ \A t \in Threads :
              (/\ threads[t].op \in IngestOps
               /\ threads[t].pc \in {"check", "process"}
               /\ threads'[t] # threads[t]
               /\ threads'[t].op = threads[t].op
               /\ Recorded(db, Folder[threads[t].i].json_filename))
                  => /\ threads'[t].pc \in {"check", "process", "finish", "close"}
                     /\ threads'[t].pending = NoPending
                     /\ db' = db
      ]_vars

\* Two runs have passed the whole folder and the store holds each file once.
C26_Witness ==
    /\ db = InsertFile(InsertFile(EmptyDb, Folder[1]), Folder[2])
    /\ \E t \in Threads : threads[t].op = "start_ingestion" /\ threads[t].pc = "finish"
    /\ \E t \in Threads : threads[t].op = "ingestion_script" /\ threads[t].pc = "close"

\* Every dashboard cache is empty after the step.
Cleared ==
    /\ distribution_cache' = [c \in StatColumns |-> NotCached]
    /\ aggregate_rules_cache' = [n \in RuleNames |-> NotCached]
    /\ per_image_rule_report_cache' = [n \in RuleNames |-> NotCached]

\* C27: in start_ingestion every committed file is followed by a call to
\* clear_dashboard_caches before the stream ends: whatever the generator
\* does next after the SUCCESS yield of a file, the closing of the stream
\* included, leaves the caches empty.
C27_ClearAfterCommit ==
    [][\A t \in Threads :
          (/\ threads[t].op = "start_ingestion"
           /\ threads[t].pc = "success"
           /\ threads'[t] # threads[t])
              => Cleared
      ]_vars

----------------------------------------------------------------------------
(* Properties of concurrent saves                                          *)

\* The request of thread t has found no file under its name and goes on to
\* report success.
Creating(t) ==
    /\ threads[t].op = "save_heatmap_rules"
    /\ threads[t].pc \in {"write", "clear"}

Deleting(n) ==
    \E t \in Threads :
        threads[t].op = "delete_heatmap_rule" /\ threads[t].rule_name = n

\* C28: create-or-conflict under concurrency.  Of the save requests for one
\* name that run at the same time at most one goes on to report success,
\* and the rule set stored under the name when a request is about to report
\* success is the configuration of that request.
C28_ConcurrentCreate ==
    /\ \A t, u \in Threads :
          (t # u /\ Creating(t) /\ Creating(u))
              => threads[t].rule_name # threads[u].rule_name
    /\ \A t \in Threads :
          (/\ Creating(t)
           /\ threads[t].pc = "clear"
           /\ ~Deleting(threads[t].rule_name))
              => saved_rules[threads[t].rule_name] = threads[t].rules_config

----------------------------------------------------------------------------
(* Properties of the wide report                                           *)

\* C29: in the wide format of create_report every rule and the default
\* category has a count column of its own, and the count columns of every
\* file row sum to the row's total_tiles.
C29_WideCountsSum ==
    IsWide =>
        \A f \in DOMAIN response.rows :
            LET row == response.rows[f]
            IN  /\ Cardinality(DOMAIN row.columns) = Len(TheConfig.rules) + 1
                /\ SumOver([name \in DOMAIN row.columns |-> row.columns[name].count],
                           DOMAIN row.columns) = row.total_tiles

----------------------------------------------------------------------------
(* Properties of the ingestion of one file                                 *)

\* The file of the folder with the given name.
FolderFile(name) == Folder[CHOOSE k \in 1..Len(Folder) : Folder[k].json_filename = name]

\* Every SourceFiles row of d has all the tile rows of its file, and every
\* tile row of d belongs to a SourceFiles row.
WholeFiles(d) ==
    /\ \A f \in FileIds(d) :
          LET stored == TilesOfFile(d, f)
              tiles == FolderFile(d.SourceFiles[f]).tiles
          IN  /\ Len(stored) = Len(tiles)
              /\ \A k \in 1..Len(tiles) :
                     /\ stored[k].status = tiles[k].status
                     /\ stored[k].laplacian = tiles[k].laplacian
    /\ \A k \in 1..Len(d.ImageTiles) : d.ImageTiles[k].source_file_id.n \in FileIds(d)

\* C30: per-file atomicity of ingestion.  After every step the store holds,
\* for each file, its SourceFiles row with all of its tile rows or none of
\* them; no step removes or alters a committed row; and after a failure on
\* a file start_ingestion drops the file's uncommitted rows and goes on
\* with the next file.
C30_FileAtomicity ==
    [][/\ WholeFiles(db')
       /\ RowsKept(db, db')
       /\ \A t \in Threads :
              (/\ threads[t].op = "start_ingestion"
               /\ threads[t].pc = "error"
               /\ threads'[t] # threads[t]
               /\ threads'[t].op = "start_ingestion")
                  => /\ threads'[t] = NextFile([threads[t] EXCEPT !.pending = NoPending])
                     /\ db' = db
      ]_vars

\* A run of start_ingestion has failed on the first file and has committed
\* the second.
C30_Witness ==
    /\ db = InsertFile(EmptyDb, Folder[2])
    /\ \E t \in Threads :
          /\ threads[t].op = "start_ingestion"
          /\ threads[t].pc = "success"
          /\ threads[t].i = Len(Folder)
    /\ \A t \in Threads : threads[t].op \in {"start_ingestion", "idle"}
    /\ response = NoResponse

====
